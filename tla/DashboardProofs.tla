-------------------------- MODULE DashboardProofs --------------------------
(***************************************************************************)
(* Theorems of Catalogue and Dashboard, for any workstreams, sessions,     *)
(* scenes and lengths of the film.                                         *)
(*                                                                         *)
(* A reading of the catalogue takes a step per file while the sessions go  *)
(* on, so its invariant (ReadsOk) says how all it has read so far stands to *)
(* the store as it is now.  A count lies between two that were so: what is *)
(* found and what may still be found is at least what there was when the   *)
(* cursor was read, and no more than what there is as long as the cursor   *)
(* is the same (CountOk); that a cursor never comes back to what it was    *)
(* (Beyond) is why the last look at it is enough.  For each workstream the *)
(* reading will not call quiet there is a witness, and one it will call    *)
(* quiet was so, or was stirred (Explained).  Of a session's steps only    *)
(* Moves matters.                                                          *)
(*                                                                         *)
(* The dashboard's invariant (Holds) relates what its waits know: who has  *)
(* the keys (ControlOk), what is shown and what is being read of the       *)
(* revisions on disk (ShownOk), what the writer has done to what its       *)
(* dialog will say of it (WroteOk), and the timer to the screen (MotionOk). *)
(* It has a lemma per action, in three groups: what keeps the screen's     *)
(* parts together (..UI), what keeps them true (..Shows), and the sum      *)
(* (..Step).                                                               *)
(***************************************************************************)
EXTENDS Dashboard, FiniteSetTheorems, TLAPS

-----------------------------------------------------------------------------
(* The sessions *)

Row == [status : {"open", "completed"}, rev : Nat]
Table == [Workstreams -> Row \union {None}]
Member == [ws : Workstreams, from : Nat]
Owed == [ws : Workstreams, at : Nat]
CursorOf == [ws : Workstreams, from : Nat, ack : [scene.sessions -> Nat]]

SessionOf ==
    [path : Seq(Member), lease : Workstreams \union {None}, ended : BOOLEAN,
     owed : Owed \union {None}, feed : Seq(Owed), torn : BOOLEAN,
     cursor : CursorOf \union {None}, blocked : BOOLEAN]

(* A session works, owes and has read where it is; its turns are in the past. *)
Placed(x, time) ==
    /\ x.path # <<>> /\ Current(x.path).from <= time
    /\ Len(x.feed) <= time
    /\ x.lease # None => x.lease = Current(x.path).ws
    /\ x.owed # None => x.owed.ws = Current(x.path).ws /\ Len(x.feed) < time
    /\ x.blocked => x.owed # None
    /\ x.cursor # None =>
          /\ x.cursor.from <= Current(x.path).from
          /\ x.cursor.from = Current(x.path).from => x.cursor.ws = Current(x.path).ws

SessionsOk ==
    /\ scene \in Scenes /\ clock \in Nat
    /\ session \in [scene.sessions -> SessionOf]
    /\ \A s \in scene.sessions : Placed(session[s], clock)

Extends(p, q) == Len(p) <= Len(q) /\ \A i \in 1..Len(p) : p[i] = q[i]

(* The cursor c is not later than d. *)
Behind(c, d) ==
    c = None \/ /\ d # None
                /\ \/ c.from < d.from
                   \/ c.from = d.from /\ \A f \in scene.sessions : c.ack[f] <= d.ack[f]

(* The cursor d is later than c and everything before it. *)
Beyond(c, d) ==
    \A e \in CursorOf \union {None} : Behind(e, c) => Behind(e, d) /\ e # d

(* A step of a session, from a to b *)
Moves(a, b) ==
    /\ Extends(a.feed, b.feed)
    /\ b.cursor = a.cursor \/ Beyond(a.cursor, b.cursor)
    /\ b.path = a.path \/ (a.lease = None /\ b.lease # None /\ ~a.blocked)
    /\ a.blocked /\ b.blocked => b.owed.ws = a.owed.ws

LEMMA SceneIs ==
  ASSUME scene \in Scenes
  PROVE  /\ CatalogueScene(scene) /\ DashboardScene(scene)
         /\ scene.sessions \subseteq Nat /\ IsFiniteSet(scene.sessions)
         /\ None \notin CursorOf /\ None \notin Nat /\ None \notin Row /\ None \notin Owed
         /\ None \notin Workstreams
<1>1. /\ CatalogueScene(scene) /\ DashboardScene(scene)
      /\ None \notin CursorOf /\ None \notin Nat /\ None \notin Row /\ None \notin Owed
      /\ Sessions \subseteq Nat /\ IsFiniteSet(Sessions) /\ Workstreams \subseteq Nat
  BY CatalogueAssumption, DashboardAssumption DEF CursorOf, Row, Owed
<1>2. scene.sessions \in SUBSET Sessions
  BY <1>1 DEF CatalogueScene
<1>3. IsFiniteSet(scene.sessions)
  BY <1>1, <1>2, FS_Subset
<1> QED BY <1>1, <1>2, <1>3

LEMMA ExtendsSame == ASSUME NEW p \in Seq(Owed) PROVE Extends(p, p)
BY DEF Extends

LEMMA ExtendsAppend ==
  ASSUME NEW p \in Seq(Owed), NEW t \in Owed
  PROVE  /\ Append(p, t) \in Seq(Owed) /\ Extends(p, Append(p, t))
         /\ Len(Append(p, t)) = Len(p) + 1
BY DEF Extends

LEMMA CurrentIs ==
  ASSUME NEW p \in Seq(Member), p # <<>>
  PROVE  Current(p) \in Member
BY DEF Current

LEMMA CurrentAppend ==
  ASSUME NEW p \in Seq(Member), NEW m \in Member
  PROVE  Append(p, m) \in Seq(Member) /\ Append(p, m) # <<>> /\ Current(Append(p, m)) = m
BY DEF Current

(* Fewer elements *)
LEMMA FewerIn ==
  ASSUME NEW S, NEW T, IsFiniteSet(T), S \subseteq T
  PROVE  IsFiniteSet(S) /\ Cardinality(S) \in Nat /\ Cardinality(S) <= Cardinality(T)
BY FS_Subset, FS_CardinalityType

LEMMA BehindSame ==
  ASSUME NEW c \in CursorOf \union {None}
  PROVE  Behind(c, c)
BY DEF Behind, CursorOf

(* Reading goes beyond a cursor. *)
LEMMA BeyondIs ==
  ASSUME scene \in Scenes, NEW c \in CursorOf \union {None}, NEW d \in CursorOf,
         NEW f \in scene.sessions,
         \/ c = None
         \/ c # None /\ c.from < d.from
         \/ /\ c # None /\ c.from = d.from /\ c.ack[f] < d.ack[f]
            /\ \A g \in scene.sessions : c.ack[g] <= d.ack[g]
  PROVE  Beyond(c, d)
<1> SUFFICES ASSUME NEW e \in CursorOf \union {None}, Behind(e, c)
             PROVE  Behind(e, d) /\ e # d
  BY DEF Beyond
<1>1. d # None
  BY SceneIs
<1>2. CASE e = None
  BY <1>1, <1>2 DEF Behind
<1>3. CASE e # None
  <2>1. e \in CursorOf /\ c \in CursorOf /\ c # None
    BY <1>3 DEF Behind
  <2>2. /\ e.from \in Nat /\ c.from \in Nat /\ d.from \in Nat
        /\ \A g \in scene.sessions : e.ack[g] \in Nat /\ c.ack[g] \in Nat /\ d.ack[g] \in Nat
    BY <2>1 DEF CursorOf
  <2>3. CASE e.from < d.from
    BY <1>1, <2>2, <2>3 DEF Behind
  <2>4. CASE ~(e.from < d.from)
    <3>1. e.from = c.from /\ c.from = d.from
      BY <1>3, <2>1, <2>2, <2>4 DEF Behind
    <3>2. c.ack[f] < d.ack[f] /\ \A g \in scene.sessions : e.ack[g] <= c.ack[g] /\ c.ack[g] <= d.ack[g]
      BY <1>3, <2>1, <2>2, <3>1 DEF Behind
    <3> QED BY <1>1, <2>2, <3>1, <3>2 DEF Behind
  <2> QED BY <2>3, <2>4
<1> QED BY <1>2, <1>3

LEMMA SessionIs ==
  ASSUME SessionsOk, NEW s \in scene.sessions
  PROVE  /\ session[s] \in SessionOf /\ Placed(session[s], clock)
         /\ session[s].path \in Seq(Member) /\ Current(session[s].path) \in Member
         /\ session[s].feed \in Seq(Owed) /\ session[s].owed \in Owed \union {None}
         /\ session[s].cursor \in CursorOf \union {None}
         /\ session[s].lease \in Workstreams \union {None} /\ clock \in Nat
<1>1. session[s] \in SessionOf /\ Placed(session[s], clock) /\ clock \in Nat
  BY DEF SessionsOk
<1>2. PICK p \in Seq(Member) : p = session[s].path
  BY <1>1 DEF SessionOf
<1>3. p # <<>>
  BY <1>1, <1>2 DEF Placed
<1>4. Current(session[s].path) \in Member
  BY <1>2, <1>3, CurrentIs
<1> QED BY <1>1, <1>4 DEF SessionOf

Happens(s, b) ==
    /\ b \in SessionOf /\ session' = [session EXCEPT ![s] = b]
    /\ Placed(b, clock') /\ Moves(session[s], b)
    /\ clock' \in Nat /\ clock <= clock'
    /\ Note /\ UNCHANGED <<scene, record, reads>>

LEMMA PromptHappens ==
  ASSUME SessionsOk, NEW s \in scene.sessions, Prompt(s)
  PROVE  \E b : Happens(s, b)
<1> DEFINE a == session[s]
<1>1. /\ a \in SessionOf /\ Placed(a, clock) /\ clock \in Nat
      /\ a.path \in Seq(Member) /\ Current(a.path) \in Member /\ a.feed \in Seq(Owed)
  BY SessionIs
<1>2. PICK w \in Workstreams :
        LET moved == w # Current(a.path).ws IN
        /\ clock' = IF moved THEN clock + 1 ELSE clock
        /\ Changes(s, [a EXCEPT !.lease = w,
               !.path = IF moved THEN Append(@, [ws |-> w, from |-> clock + 1]) ELSE @])
  BY DEF Prompt
<1>3. a.lease = None /\ a.owed = None
  BY DEF Prompt
<1>4. a.path # <<>> /\ ~a.blocked /\ Len(a.feed) <= clock
  BY <1>1, <1>3 DEF Placed
<1>5. w # None
  BY SceneIs DEF SessionsOk
<1>6. Extends(a.feed, a.feed) /\ Len(a.feed) \in Nat
  BY <1>1, ExtendsSame
<1>7. CASE w = Current(a.path).ws
  <2> DEFINE b == [a EXCEPT !.lease = w]
  <2>1. Changes(s, b) /\ clock' = clock
    BY <1>1, <1>2, <1>7 DEF SessionOf
  <2>2. /\ b \in SessionOf /\ b.lease = w /\ b.path = a.path /\ b.feed = a.feed /\ b.owed = a.owed
        /\ b.blocked = a.blocked /\ b.cursor = a.cursor
    BY <1>1 DEF SessionOf
  <2> HIDE DEF b
  <2>3. Placed(b, clock)
    BY <1>1, <1>7, <2>2 DEF Placed
  <2>4. Moves(a, b)
    BY <1>4, <1>6, <2>2 DEF Moves
  <2>20. Happens(s, b)
    BY <1>1, <2>1, <2>2, <2>3, <2>4 DEF Changes, Happens
  <2> QED BY <2>20
<1>8. CASE w # Current(a.path).ws
  <2> DEFINE m == [ws |-> w, from |-> clock + 1]
             p == Append(a.path, m)
             b == [a EXCEPT !.lease = w, !.path = p]
  <2>0. m \in Member /\ m.ws = w /\ m.from = clock + 1
    BY <1>1 DEF Member
  <2>1. p \in Seq(Member) /\ p # <<>> /\ Current(p) = m
    BY <1>1, <2>0, CurrentAppend
  <2>2. Changes(s, b) /\ clock' = clock + 1
    BY <1>1, <1>2, <1>8
  <2> HIDE DEF p
  <2>3. /\ b \in SessionOf /\ b.lease = w /\ b.path = p /\ b.feed = a.feed /\ b.owed = a.owed
        /\ b.blocked = a.blocked /\ b.cursor = a.cursor
    BY <1>1, <2>1 DEF SessionOf
  <2> HIDE DEF b
  <2>4. /\ Current(p).ws = w /\ Current(p).from = clock + 1 /\ Current(a.path).from \in Nat
        /\ Current(a.path).from <= clock
    BY <1>1, <2>0, <2>1 DEF Member, Placed
  <2>5. a.cursor # None => a.cursor.from < clock + 1
    <3>1. a.cursor # None => a.cursor.from \in Nat /\ a.cursor.from <= Current(a.path).from
      BY <1>1 DEF SessionOf, CursorOf, Placed
    <3> QED BY <1>1, <2>4, <3>1
  <2>6. a.cursor # None => a.cursor.from \in Nat
    BY <1>1 DEF SessionOf, CursorOf
  <2>7. Placed(b, clock + 1)
    BY <1>1, <1>3, <1>4, <1>6, <2>1, <2>3, <2>4, <2>5, <2>6 DEF Placed
  <2>8. Moves(a, b)
    BY <1>3, <1>4, <1>5, <1>6, <2>3 DEF Moves
  <2>20. Happens(s, b)
    BY <1>1, <2>2, <2>3, <2>7, <2>8 DEF Changes, Happens
  <2> QED BY <2>20
<1> QED BY <1>7, <1>8

LEMMA AcknowledgeHappens ==
  ASSUME SessionsOk, NEW s \in scene.sessions, NEW f \in scene.sessions, Acknowledge(s, f)
  PROVE  \E b : Happens(s, b)
<1> DEFINE a == session[s]
           m == Current(a.path)
           before == IF a.cursor # None /\ Matches(a.cursor, m) THEN a.cursor.ack
                     ELSE [g \in scene.sessions |-> 0]
           n == Len(session[f].feed)
           d == [ws |-> m.ws, from |-> m.from, ack |-> [before EXCEPT ![f] = n]]
           b == [a EXCEPT !.cursor = d]
<1>1. /\ a \in SessionOf /\ Placed(a, clock) /\ clock \in Nat /\ m \in Member
      /\ a.feed \in Seq(Owed) /\ a.cursor \in CursorOf \union {None} /\ n \in Nat
  BY SessionIs
<1>2. Changes(s, b) /\ before[f] < n /\ UNCHANGED clock
  BY DEF Acknowledge
<1>3. before \in [scene.sessions -> Nat]
  BY <1>1 DEF CursorOf
<1>4. d \in CursorOf /\ d.from = m.from /\ d.ws = m.ws /\ m.from \in Nat
  BY <1>1, <1>3 DEF CursorOf, Member
<1>5. /\ d.ack[f] = n /\ before[f] \in Nat
      /\ \A g \in scene.sessions : before[g] <= d.ack[g]
  <2> HIDE DEF before
  <2>1. d.ack = [before EXCEPT ![f] = n]
    OBVIOUS
  <2>2. before[f] \in Nat /\ \A g \in scene.sessions : before[g] \in Nat
    BY <1>3
  <2> HIDE DEF d
  <2> QED BY <1>1, <1>2, <1>3, <2>1, <2>2
<1>6. Beyond(a.cursor, d)
  <2>0. scene \in Scenes
    BY DEF SessionsOk
  <2>1. CASE a.cursor = None
    BY <1>1, <1>4, <2>0, <2>1, BeyondIs
  <2>2. CASE a.cursor # None
    <3>1. PICK c \in CursorOf : c = a.cursor
      BY <1>1, <2>2
    <3>2. c.from \in Nat /\ c.from <= m.from /\ (c.from = m.from => c.ws = m.ws)
      BY <1>1, <2>2, <3>1 DEF CursorOf, Placed
    <3>3. CASE c.from = m.from
      <4>1. Matches(c, m)
        BY <3>2, <3>3 DEF Matches
      <4>2. before = c.ack
        BY <2>2, <3>1, <4>1
      <4> HIDE DEF before, d
      <4> QED BY <1>1, <1>2, <1>4, <1>5, <2>0, <2>2, <3>1, <3>3, <4>2, BeyondIs
    <3>4. CASE c.from # m.from
      <4> HIDE DEF before, d
      <4> QED BY <1>1, <1>4, <2>0, <2>2, <3>1, <3>2, <3>4, BeyondIs
    <3> QED BY <3>3, <3>4
  <2> QED BY <2>1, <2>2
<1> HIDE DEF d
<1>7. /\ b \in SessionOf /\ b.lease = a.lease /\ b.path = a.path /\ b.feed = a.feed
      /\ b.owed = a.owed /\ b.blocked = a.blocked /\ b.cursor = d
  BY <1>1, <1>4 DEF SessionOf
<1> HIDE DEF b
<1>8. Placed(b, clock)
  BY <1>1, <1>4, <1>7 DEF Placed
<1>9. Moves(a, b)
  BY <1>1, <1>6, <1>7, ExtendsSame DEF Moves
<1>20. Happens(s, b)
  BY <1>1, <1>2, <1>7, <1>8, <1>9 DEF Changes, Happens
<1> QED BY <1>20

LEMMA StopHappens ==
  ASSUME SessionsOk, NEW s \in scene.sessions, Stop(s)
  PROVE  \E b : Happens(s, b)
<1> DEFINE a == session[s]
           t == [ws |-> a.lease, at |-> clock + 1]
           b == [a EXCEPT !.ended = TRUE, !.owed = t]
<1>1. /\ a \in SessionOf /\ Placed(a, clock) /\ clock \in Nat /\ a.lease \in Workstreams
      /\ Current(a.path) \in Member /\ a.feed \in Seq(Owed) /\ a.lease # None
  BY SessionIs DEF Stop
<1>2. Changes(s, b) /\ clock' = clock + 1
  BY DEF Stop
<1>3. t \in Owed /\ t.ws = a.lease
  BY <1>1 DEF Owed
<1> HIDE DEF t
<1>4. /\ b \in SessionOf /\ b.lease = a.lease /\ b.path = a.path /\ b.feed = a.feed
      /\ b.owed = t /\ b.blocked = a.blocked /\ b.cursor = a.cursor
  BY <1>1, <1>3 DEF SessionOf
<1> HIDE DEF b
<1>5. /\ a.lease = Current(a.path).ws /\ Current(a.path).from \in Nat /\ Len(a.feed) \in Nat
      /\ Current(a.path).from <= clock /\ Len(a.feed) <= clock /\ t # None
  BY <1>1, <1>3, SceneIs DEF Placed, Member, SessionsOk
<1>6. Placed(b, clock + 1)
  BY <1>1, <1>3, <1>4, <1>5 DEF Placed
<1>7. Moves(a, b)
  BY <1>1, <1>3, <1>4, <1>5, ExtendsSame DEF Moves, Placed
<1>20. Happens(s, b)
  BY <1>1, <1>2, <1>4, <1>6, <1>7 DEF Changes, Happens
<1> QED BY <1>20

LEMMA PublishHappens ==
  ASSUME SessionsOk, NEW s \in scene.sessions, Publish(s)
  PROVE  \E b : Happens(s, b)
<1> DEFINE a == session[s]
<1>1. /\ a \in SessionOf /\ Placed(a, clock) /\ clock \in Nat /\ a.owed \in Owed
      /\ Current(a.path) \in Member /\ a.feed \in Seq(Owed)
  BY SessionIs DEF Publish
<1>2. PICK p : p = Append(a.feed, a.owed)
  OBVIOUS
<1>3. p \in Seq(Owed) /\ Extends(a.feed, p) /\ Len(p) = Len(a.feed) + 1 /\ Len(a.feed) \in Nat
  BY <1>1, <1>2, ExtendsAppend
<1> DEFINE b == [a EXCEPT !.feed = p, !.owed = None, !.torn = FALSE, !.blocked = FALSE]
<1>4. Changes(s, b) /\ UNCHANGED clock
  BY <1>2 DEF Publish
<1>5. /\ b \in SessionOf /\ b.lease = a.lease /\ b.path = a.path /\ b.feed = p
      /\ b.owed = None /\ ~b.blocked /\ b.cursor = a.cursor
  BY <1>1, <1>3 DEF SessionOf
<1> HIDE DEF b
<1>6. a.owed # None /\ Len(a.feed) < clock
  BY <1>1, SceneIs DEF Publish, Placed
<1>7. Placed(b, clock)
  BY <1>1, <1>3, <1>5, <1>6 DEF Placed
<1>8. Moves(a, b)
  BY <1>3, <1>5 DEF Moves
<1>20. Happens(s, b)
  BY <1>1, <1>4, <1>5, <1>7, <1>8 DEF Changes, Happens
<1> QED BY <1>20

LEMMA QuieterHappens ==
  ASSUME SessionsOk, NEW s \in scene.sessions, Tombstone(s) \/ Tear(s) \/ Block(s)
  PROVE  \E b : Happens(s, b)
<1> DEFINE a == session[s]
<1>1. /\ a \in SessionOf /\ Placed(a, clock) /\ clock \in Nat
      /\ Current(a.path) \in Member /\ a.feed \in Seq(Owed) /\ Extends(a.feed, a.feed)
  BY SessionIs, ExtendsSame
<1>2. CASE Tombstone(s)
  <2> DEFINE b == [a EXCEPT !.ended = FALSE, !.lease = None]
  <2>1. Changes(s, b) /\ UNCHANGED clock
    BY <1>2 DEF Tombstone
  <2>2. /\ b \in SessionOf /\ b.lease = None /\ b.path = a.path /\ b.feed = a.feed
        /\ b.owed = a.owed /\ b.blocked = a.blocked /\ b.cursor = a.cursor
    BY <1>1 DEF SessionOf
  <2> HIDE DEF b
  <2>3. Placed(b, clock) /\ Moves(a, b)
    BY <1>1, <2>2 DEF Placed, Moves
  <2>20. Happens(s, b)
    BY <1>1, <2>1, <2>2, <2>3 DEF Changes, Happens
  <2> QED BY <2>20
<1>3. CASE Tear(s)
  <2> DEFINE b == [a EXCEPT !.torn = TRUE]
  <2>1. Changes(s, b) /\ UNCHANGED clock
    BY <1>3 DEF Tear
  <2>2. /\ b \in SessionOf /\ b.lease = a.lease /\ b.path = a.path /\ b.feed = a.feed
        /\ b.owed = a.owed /\ b.blocked = a.blocked /\ b.cursor = a.cursor
    BY <1>1 DEF SessionOf
  <2> HIDE DEF b
  <2>3. Placed(b, clock) /\ Moves(a, b)
    BY <1>1, <2>2 DEF Placed, Moves
  <2>20. Happens(s, b)
    BY <1>1, <2>1, <2>2, <2>3 DEF Changes, Happens
  <2> QED BY <2>20
<1>4. CASE Block(s)
  <2> DEFINE b == [a EXCEPT !.blocked = TRUE]
  <2>1. Changes(s, b) /\ UNCHANGED clock /\ a.owed # None
    BY <1>4 DEF Block
  <2>2. /\ b \in SessionOf /\ b.lease = a.lease /\ b.path = a.path /\ b.feed = a.feed
        /\ b.owed = a.owed /\ b.blocked = TRUE /\ b.cursor = a.cursor
    BY <1>1 DEF SessionOf
  <2> HIDE DEF b
  <2>3. Placed(b, clock) /\ Moves(a, b)
    BY <1>1, <2>1, <2>2 DEF Placed, Moves
  <2>20. Happens(s, b)
    BY <1>1, <2>1, <2>2, <2>3 DEF Changes, Happens
  <2> QED BY <2>20
<1> QED BY <1>2, <1>3, <1>4

LEMMA LaterPlaced ==
  ASSUME NEW x \in SessionOf, NEW t \in Nat, NEW u \in Nat, Placed(x, t), t <= u
  PROVE  Placed(x, u)
<1>1. PICK p \in Seq(Member), q \in Seq(Owed) : p = x.path /\ q = x.feed
  BY DEF SessionOf
<1>2. p # <<>>
  BY <1>1 DEF Placed
<1>3. Len(q) \in Nat /\ Current(p) \in Member
  BY <1>1, <1>2, CurrentIs
<1>4. Current(p).from \in Nat
  BY <1>3 DEF Member
<1> QED BY <1>1, <1>3, <1>4 DEF Placed

LEMMA HappensOk ==
  ASSUME SessionsOk, NEW s \in scene.sessions, NEW b, Happens(s, b)
  PROVE  SessionsOk'
<1>1. /\ scene' = scene /\ b \in SessionOf /\ session' = [session EXCEPT ![s] = b]
      /\ Placed(b, clock') /\ clock \in Nat /\ clock' \in Nat /\ clock <= clock'
      /\ session \in [scene.sessions -> SessionOf]
  BY DEF Happens, SessionsOk
<1>2. SessionOf' = SessionOf
  BY <1>1 DEF SessionOf, CursorOf
<1>3. ASSUME NEW t \in scene.sessions PROVE Placed(session'[t], clock')
  <2>1. CASE t = s
    BY <1>1, <2>1
  <2>2. CASE t # s
    <3>1. session'[t] = session[t] /\ session[t] \in SessionOf /\ Placed(session[t], clock)
      BY <1>1, <2>2 DEF SessionsOk
    <3> QED BY <1>1, <3>1, LaterPlaced
  <2> QED BY <2>1, <2>2
<1>4. scene' \in Scenes /\ session' \in [scene.sessions -> SessionOf]
  BY <1>1 DEF SessionsOk
<1> QED BY <1>1, <1>2, <1>3, <1>4 DEF SessionsOk, Placed

(* A step of the sessions is one of these, or somebody changes a status. *)
LEMMA SessionSteps ==
  ASSUME SessionsOk, SessionNext
  PROVE  \/ \E s \in scene.sessions : \E b : Happens(s, b)
         \/ \E w \in Workstreams : Flip(w)
BY PromptHappens, AcknowledgeHappens, StopHappens, PublishHappens, QuieterHappens
   DEF SessionNext

-----------------------------------------------------------------------------
(* News *)

Everything == scene.sessions \X (1..clock)

LEMMA EverythingFinite ==
  ASSUME SessionsOk
  PROVE  IsFiniteSet(Everything)
<1>1. IsFiniteSet(scene.sessions) /\ clock \in Int /\ 1 \in Int
  BY SceneIs DEF SessionsOk
<1>2. IsFiniteSet(1..clock)
  BY <1>1, FS_Interval
<1> QED BY <1>1, <1>2, FS_Product DEF Everything

LEMMA NewsInIs ==
  ASSUME NEW f \in scene.sessions, NEW p \in Seq(Owed), NEW c \in CursorOf \union {None},
         NEW m \in Member
  PROVE  /\ NewsIn(f, p, c, m) \subseteq scene.sessions \X (1..Len(p))
         /\ \A q \in Seq(Owed) : Extends(p, q) => NewsIn(f, p, c, m) \subseteq NewsIn(f, q, c, m)
<1>1. Position(c, f) \in Nat
  BY DEF Position, CursorOf
<1> DEFINE I(q) == {i \in Position(c, f) + 1 .. Len(q) : q[i].ws = m.ws /\ q[i].at > m.from}
<1>2. \A q : NewsIn(f, q, c, m) = {<<f, i>> : i \in I(q)}
  BY DEF NewsIn
<1>3. \A i \in I(p) : i \in 1..Len(p)
  <2>1. Len(p) \in Nat
    OBVIOUS
  <2> QED BY <1>1, <2>1
<1>4. ASSUME NEW q \in Seq(Owed), Extends(p, q) PROVE I(p) \subseteq I(q)
  <2>1. Len(p) \in Nat /\ Len(q) \in Nat /\ Len(p) <= Len(q)
    BY <1>4 DEF Extends
  <2>2. \A i \in I(p) : i \in 1..Len(p) /\ p[i] = q[i]
    BY <1>3, <1>4 DEF Extends
  <2> QED BY <1>1, <2>1, <2>2
<1> HIDE DEF I
<1> QED BY <1>2, <1>3, <1>4

LEMMA NewsIs ==
  ASSUME SessionsOk, NEW k \in scene.sessions, NEW m \in Member
  PROVE  /\ News(session, k, m) \subseteq Everything
         /\ IsFiniteSet(News(session, k, m)) /\ Cardinality(News(session, k, m)) \in Nat
<1> DEFINE c == IF Matches(session[k].cursor, m) THEN session[k].cursor ELSE None
<1>1. c \in CursorOf \union {None}
  BY SessionIs
<1>2. News(session, k, m) = UNION {NewsIn(f, session[f].feed, c, m) : f \in Others(k)}
  BY DEF News
<1> HIDE DEF c
<1>3. ASSUME NEW f \in Others(k) PROVE NewsIn(f, session[f].feed, c, m) \subseteq Everything
  <2>1. f \in scene.sessions
    BY DEF Others
  <2>2. PICK p \in Seq(Owed) : p = session[f].feed
    BY <2>1, SessionIs
  <2>3. Len(p) \in Nat /\ Len(p) <= clock /\ clock \in Nat
    BY <2>1, <2>2, SessionIs DEF Placed
  <2>4. NewsIn(f, p, c, m) \subseteq scene.sessions \X (1..Len(p))
    BY <1>1, <2>1, NewsInIs
  <2>5. 1..Len(p) \subseteq 1..clock
    BY <2>3
  <2> QED BY <2>2, <2>4, <2>5 DEF Everything
<1>4. News(session, k, m) \subseteq Everything
  BY <1>2, <1>3
<1> QED BY <1>4, EverythingFinite, FewerIn

(* One feed, as time goes on *)
LEMMA FeedsGrow ==
  ASSUME SessionsOk, NEW s \in scene.sessions, NEW b, Happens(s, b), NEW f \in scene.sessions
  PROVE  /\ session[f].feed \in Seq(Owed) /\ session'[f].feed \in Seq(Owed)
         /\ Extends(session[f].feed, session'[f].feed)
         /\ f # s => session'[f] = session[f]
         /\ f = s => session'[f] = b
<1>1. /\ b \in SessionOf /\ session' = [session EXCEPT ![s] = b] /\ Moves(session[s], b)
      /\ session \in [scene.sessions -> SessionOf] /\ session[f] \in SessionOf
  BY DEF Happens, SessionsOk
<1>2. session[f].feed \in Seq(Owed) /\ b.feed \in Seq(Owed)
  BY <1>1 DEF SessionOf
<1>3. CASE f = s
  BY <1>1, <1>2, <1>3 DEF Moves
<1>4. CASE f # s
  BY <1>1, <1>2, <1>4, ExtendsSame
<1> QED BY <1>3, <1>4

LEMMA OfGrows ==
  ASSUME SessionsOk, NEW s \in scene.sessions, NEW b, Happens(s, b), NEW f \in scene.sessions,
         NEW c \in CursorOf \union {None}, NEW m \in Member
  PROVE  NewsIn(f, session[f].feed, c, m) \subseteq NewsIn(f, session'[f].feed, c, m)
<1>1. PICK p \in Seq(Owed), q \in Seq(Owed) : p = session[f].feed /\ q = session'[f].feed
  BY FeedsGrow
<1>2. Extends(p, q)
  BY <1>1, FeedsGrow
<1> QED BY <1>1, <1>2, NewsInIs

(* A session that has not read on has the news it had. *)
LEMMA NewsGrow ==
  ASSUME SessionsOk, NEW s \in scene.sessions, NEW b, Happens(s, b), NEW k \in scene.sessions,
         NEW m \in Member, session'[k].cursor = session[k].cursor
  PROVE  News(session, k, m) \subseteq News(session', k, m)
<1> DEFINE c == IF Matches(session[k].cursor, m) THEN session[k].cursor ELSE None
<1>1. c \in CursorOf \union {None}
  BY SessionIs
<1>2. /\ News(session, k, m) = UNION {NewsIn(f, session[f].feed, c, m) : f \in Others(k)}
      /\ News(session', k, m) = UNION {NewsIn(f, session'[f].feed, c, m) : f \in Others(k)}
  BY DEF News
<1> HIDE DEF c
<1>3. \A f \in Others(k) : NewsIn(f, session[f].feed, c, m) \subseteq NewsIn(f, session'[f].feed, c, m)
  BY <1>1, OfGrows DEF Others
<1> QED BY <1>2, <1>3

-----------------------------------------------------------------------------
(* The invariant of a reading x; y is what was so since it began. *)

StageNames == {"records", "participation", "feeds", "active", "cursors", "scans",
               "revalidate", "publish", "done"}

Reading ==
    [stage : StageNames, todo : SUBSET Nat, refused : BOOLEAN, records : Table,
     paths : [scene.sessions -> Seq(Member)], feeds : [scene.sessions -> Seq(Owed)],
     torn : [scene.sessions -> BOOLEAN],
     leases : [scene.sessions -> Workstreams \union {None}],
     cursors : [scene.sessions -> CursorOf \union {None}],
     found : [scene.sessions -> SUBSET (scene.sessions \X Nat)],
     unknown : SUBSET scene.sessions, blocked : SUBSET scene.sessions]

Since ==
    [quiet : SUBSET Workstreams, stirred : SUBSET Workstreams,
     counts : [scene.sessions -> SUBSET Nat]]

(* How far the reading is with the file of s *)
PathRead(x, s) ==
    \/ x.stage = "participation" /\ s \notin x.todo
    \/ x.stage \in {"feeds", "active", "cursors", "scans", "revalidate", "publish", "done"}

LeaseRead(x, s) ==
    \/ x.stage = "active" /\ s \notin x.todo
    \/ x.stage \in {"cursors", "scans", "revalidate", "publish", "done"}

CursorRead(x, s) ==
    \/ x.stage = "cursors" /\ s \notin x.todo
    \/ x.stage \in {"scans", "revalidate", "publish", "done"}

Unscanned(x, f) == x.stage = "cursors" \/ (x.stage = "scans" /\ f \in x.todo)

Unverified(x, s) == x.stage \in {"cursors", "scans"} \/ (x.stage = "revalidate" /\ s \in x.todo)

Unattached(x, s) == x.stage \in {"scans", "revalidate"} \/ (x.stage = "publish" /\ s \in x.todo)

(* The news that s has in f, by the cursor that was read *)
Of(x, s, f) == NewsIn(f, session[f].feed, x.cursors[s], Key(x, s))

(* What would be found if the rest were read now *)
Reach(x, s) ==
    x.found[s] \union UNION {Of(x, s, f) : f \in {g \in Others(s) : Unscanned(x, g)}}

(* A count is between two that were so: what is found is at least what there was
   when the cursor was read, and at most what there is as long as the cursor is
   the same. *)
CountOk(x, y, s) ==
    /\ x.paths[s] # <<>>
    /\ Behind(x.cursors[s], session[s].cursor)
    /\ y.counts[s] # {}
    /\ x.stage # "done" => Cardinality(News(session, s, Key(x, s))) \in y.counts[s]
    /\ s \notin x.unknown =>
        /\ Matches(x.cursors[s], Key(x, s))
        /\ \E lo \in y.counts[s] : lo <= Cardinality(Reach(x, s))
        /\ Unverified(x, s) /\ session[s].cursor = x.cursors[s]
              => x.found[s] \subseteq News(session, s, Key(x, s))
        /\ ~Unverified(x, s) => \E hi \in y.counts[s] : Cardinality(x.found[s]) <= hi

(* Why the reading does not, or will not, call w quiet *)
Witness(x, w, s) ==
    /\ Key(x, s).ws = w
    /\ \/ s \in x.unknown \/ x.found[s] # {} \/ s \in x.blocked
       \/ x.stage = "scans" /\ \E f \in x.todo \ {s} : Of(x, s, f) # {}
       \/ Unverified(x, s) /\ session[s].cursor # x.cursors[s]
       \/ Unattached(x, s) /\ session[s].blocked /\ session[s].owed.ws = w

Calm(x, w, s) ==
    /\ LeaseRead(x, s) /\ x.leases[s] # w => session[s].lease # w
    /\ PathRead(x, s) /\ Current(session[s].path).ws = w => x.paths[s] = session[s].path

Watched(x, y, w) ==
    /\ Quiet(session, w) => w \in y.quiet
    /\ w \notin y.stirred => \A s \in scene.sessions : Calm(x, w, s)

Explained(x, y, w) ==
    (\A s \in scene.sessions : x.leases[s] # w) =>
        \/ w \in y.quiet \union y.stirred
        \/ \E s \in scene.sessions : Witness(x, w, s)

QuietOk(x, y) ==
    /\ x.stage # "done" => \A w \in Workstreams : Watched(x, y, w)
    /\ x.stage \in {"scans", "revalidate", "publish", "done"} =>
          \A w \in Workstreams : Explained(x, y, w)

Begun(x, y) ==
    /\ x \in Reading /\ y \in Since
    /\ x.stage = "records" => x.todo = {0}
    /\ x.stage \notin {"records", "done"} => x.todo \subseteq scene.sessions
    /\ x.refused => x.stage = "done"
    /\ \A s \in scene.sessions : IsFiniteSet(x.found[s])
    /\ \A s \in scene.sessions : y.counts[s] # {} => x.paths[s] # <<>>
    /\ ~x.refused => \A s \in scene.sessions : PathRead(x, s) => x.paths[s] # <<>>
    /\ x.stage \in {"records", "participation", "feeds", "active", "cursors"}
          => \A s \in scene.sessions : x.found[s] = {}

ReadOk(x, y) ==
    x # NoReading =>
        /\ Begun(x, y)
        /\ ~x.refused => /\ \A s \in scene.sessions : CursorRead(x, s) => CountOk(x, y, s)
                         /\ QuietOk(x, y)

ReadsOk ==
    /\ reads = [r \in Readers |-> reads[r]] /\ since = [r \in Readers |-> since[r]]
    /\ \A r \in Readers : ReadOk(reads[r], since[r])

LEMMA ReadingIs ==
  ASSUME SessionsOk, NEW x \in Reading, NEW s \in scene.sessions
  PROVE  /\ x.paths[s] \in Seq(Member) /\ x.cursors[s] \in CursorOf \union {None}
         /\ x.paths[s] # <<>> => Key(x, s) \in Member
         /\ x.found[s] \subseteq scene.sessions \X Nat
         /\ x.leases[s] \in Workstreams \union {None}
<1>1. PICK p \in Seq(Member) : p = x.paths[s]
  BY DEF Reading
<1>2. p # <<>> => Key(x, s) \in Member
  BY <1>1, CurrentIs DEF Key
<1> QED BY <1>1, <1>2 DEF Reading

LEMMA OfIs ==
  ASSUME SessionsOk, NEW x \in Reading, NEW s \in scene.sessions, x.paths[s] # <<>>,
         NEW f \in scene.sessions
  PROVE  Of(x, s, f) \subseteq Everything /\ IsFiniteSet(Of(x, s, f))
<1>1. PICK p \in Seq(Owed) : p = session[f].feed
  BY SessionIs
<1>2. Len(p) \in Nat /\ Len(p) <= clock /\ clock \in Nat
  BY <1>1, SessionIs DEF Placed
<1>3. Of(x, s, f) \subseteq scene.sessions \X (1..Len(p))
  BY <1>1, ReadingIs, NewsInIs DEF Of
<1>4. 1..Len(p) \subseteq 1..clock
  BY <1>2
<1>5. Of(x, s, f) \subseteq Everything
  BY <1>3, <1>4 DEF Everything
<1> QED BY <1>5, EverythingFinite, FewerIn

LEMMA ReachIs ==
  ASSUME SessionsOk, NEW x \in Reading, NEW s \in scene.sessions, x.paths[s] # <<>>,
         IsFiniteSet(x.found[s])
  PROVE  IsFiniteSet(Reach(x, s)) /\ Cardinality(Reach(x, s)) \in Nat
<1> DEFINE U == UNION {Of(x, s, f) : f \in {g \in Others(s) : Unscanned(x, g)}}
<1>1. \A f \in Others(s) : Of(x, s, f) \subseteq Everything
  BY OfIs DEF Others
<1>2. U \subseteq Everything
  BY <1>1
<1>3. IsFiniteSet(U)
  BY <1>2, EverythingFinite, FewerIn
<1>4. Reach(x, s) = x.found[s] \union U
  BY DEF Reach
<1> HIDE DEF U
<1> QED BY <1>3, <1>4, FS_Union, FS_CardinalityType

-----------------------------------------------------------------------------
(* What a step of a session does to a reading *)

Noted(x, y, z) ==
    /\ z \in Since
    /\ y.quiet \subseteq z.quiet /\ y.stirred \subseteq z.stirred
    /\ \A s \in scene.sessions : y.counts[s] \subseteq z.counts[s]
    /\ \A s \in scene.sessions : z.counts[s] # {} => y.counts[s] # {}
    /\ x.stage # "done" =>
          /\ \A w \in Workstreams : Quiet(session', w) => w \in z.quiet
          /\ \A w \in Workstreams : \A s \in scene.sessions :
                \/ session[s].lease # w /\ session'[s].lease = w
                \/ session[s].blocked /\ ~session'[s].blocked /\ session[s].owed.ws = w
                => w \in z.stirred
          /\ \A s \in scene.sessions :
                y.counts[s] # {} => Cardinality(News(session', s, Key(x, s))) \in z.counts[s]

LEMMA NewsCounted ==
  SessionsOk => \A k \in scene.sessions : \A m \in Member :
                   Cardinality(News(session, k, m)) \in Nat
BY NewsIs

LEMMA NewsLater ==
  ASSUME SessionsOk', scene' = scene
  PROVE  \A k \in scene.sessions : \A m \in Member : Cardinality(News(session', k, m)) \in Nat
<1>1. (\A k \in scene.sessions : \A m \in Member : Cardinality(News(session, k, m)) \in Nat)'
  BY NewsCounted, PTL
<1>2. ASSUME NEW k, NEW m PROVE News(session, k, m)' = News(session', k, m)
  BY DEF News, Others
<1> QED BY <1>1, <1>2

LEMMA NoteIs ==
  ASSUME SessionsOk, NEW s \in scene.sessions, NEW b, Happens(s, b), NEW r \in Readers,
         NEW x \in Reading, NEW y \in Since, reads[r] = x, since[r] = y, Begun(x, y)
  PROVE  Noted(x, y, since'[r])
<1>1. Note /\ SessionsOk' /\ scene' = scene
  BY HappensOk DEF Happens
<1>2. CASE x.stage = "done"
  <2>1. since'[r] = y
    BY <1>1, <1>2 DEF Note
  <2> QED BY <1>2, <2>1 DEF Noted
<1>3. CASE x.stage # "done"
  <2> DEFINE q == {w \in Workstreams : Quiet(session', w)}
             t == {w \in Workstreams : \E k \in scene.sessions :
                      \/ session[k].lease # w /\ session'[k].lease = w
                      \/ /\ session[k].blocked /\ ~session'[k].blocked
                         /\ session[k].owed.ws = w}
             c == [k \in scene.sessions |->
                      IF y.counts[k] = {} THEN {}
                      ELSE y.counts[k] \union {Cardinality(News(session', k, Key(x, k)))}]
             z == [y EXCEPT !.quiet = @ \union q, !.stirred = @ \union t, !.counts = c]
  <2>1. since'[r] = z
    <3>1. x.stage \notin {"none", "done"}
      BY <1>3 DEF Reading, StageNames
    <3> QED BY <1>1, <3>1 DEF Note
  <2>2. ASSUME NEW k \in scene.sessions
        PROVE  /\ y.counts[k] \subseteq Nat
               /\ y.counts[k] # {} => Cardinality(News(session', k, Key(x, k))) \in Nat
    <3>1. y.counts[k] \subseteq Nat
      BY DEF Since
    <3>2. CASE y.counts[k] # {}
      <4>1. Key(x, k) \in Member
        BY <3>2, ReadingIs DEF Begun
      <4>2. Cardinality(News(session', k, Key(x, k))) \in Nat
        BY <1>1, <4>1, NewsLater
      <4> QED BY <3>1, <4>1, <4>2
    <3> QED BY <3>1, <3>2
  <2>3. c \in [scene.sessions -> SUBSET Nat]
    BY <2>2
  <2> HIDE DEF c, q, t
  <2>4. /\ z.quiet = y.quiet \union q /\ z.stirred = y.stirred \union t /\ z.counts = c
        /\ q \subseteq Workstreams /\ t \subseteq Workstreams
    BY DEF Since, q, t
  <2>5. z \in Since
    BY <2>3, <2>4 DEF Since
  <2> HIDE DEF z
  <2>6. \A k \in scene.sessions : /\ y.counts[k] \subseteq z.counts[k]
                                  /\ z.counts[k] # {} => y.counts[k] # {}
    BY <2>4 DEF c
  <2>7. \A w \in Workstreams : Quiet(session', w) => w \in z.quiet
    BY <2>4 DEF q
  <2>8. \A w \in Workstreams : \A k \in scene.sessions :
           \/ session[k].lease # w /\ session'[k].lease = w
           \/ session[k].blocked /\ ~session'[k].blocked /\ session[k].owed.ws = w
           => w \in z.stirred
    BY <2>4 DEF t
  <2>9. \A k \in scene.sessions :
           y.counts[k] # {} => Cardinality(News(session', k, Key(x, k))) \in z.counts[k]
    BY <2>4 DEF c
  <2> QED BY <2>1, <2>4, <2>5, <2>6, <2>7, <2>8, <2>9 DEF Noted
<1> QED BY <1>2, <1>3

LEMMA CursorKept ==
  ASSUME SessionsOk, NEW s \in scene.sessions, NEW b, Happens(s, b), NEW k \in scene.sessions,
         NEW c \in CursorOf \union {None}, Behind(c, session[k].cursor)
  PROVE  /\ Behind(c, session'[k].cursor)
         /\ session'[k].cursor = c => session[k].cursor = c /\ session'[k].cursor = session[k].cursor
<1>1. /\ session' = [session EXCEPT ![s] = b] /\ Moves(session[s], b)
      /\ session \in [scene.sessions -> SessionOf]
  BY DEF Happens, SessionsOk
<1>2. CASE session'[k].cursor = session[k].cursor
  BY <1>2
<1>3. CASE session'[k].cursor # session[k].cursor
  <2>1. k = s /\ session'[k] = b
    BY <1>1, <1>3
  <2>2. Beyond(session[k].cursor, b.cursor)
    BY <1>1, <1>3, <2>1 DEF Moves
  <2>3. Behind(c, b.cursor) /\ c # b.cursor
    BY <2>2 DEF Beyond
  <2> QED BY <2>1, <2>3
<1> QED BY <1>2, <1>3

LEMMA ReachFinite ==
  SessionsOk => \A z \in Reading : \A n \in scene.sessions :
                   z.paths[n] # <<>> /\ IsFiniteSet(z.found[n]) => IsFiniteSet(Reach(z, n))
BY ReachIs

LEMMA ReachGrows ==
  ASSUME SessionsOk, NEW s \in scene.sessions, NEW b, Happens(s, b), NEW x \in Reading,
         NEW k \in scene.sessions, x.paths[k] # <<>>, IsFiniteSet(x.found[k])
  PROVE  /\ Cardinality(Reach(x, k)) \in Nat /\ Cardinality(Reach(x, k)') \in Nat
         /\ Cardinality(Reach(x, k)) <= Cardinality(Reach(x, k)')
<1>0. SessionsOk' /\ scene' = scene
  BY HappensOk DEF Happens
<1>1. Key(x, k) \in Member /\ x.cursors[k] \in CursorOf \union {None}
  BY ReadingIs
<1>2. \A f \in scene.sessions : Of(x, k, f) \subseteq Of(x, k, f)'
  BY <1>1, OfGrows DEF Of
<1>3. Reach(x, k) \subseteq Reach(x, k)'
  BY <1>0, <1>2 DEF Reach, Others
<1>4. IsFiniteSet(Reach(x, k)')
  <2>1. (\A z \in Reading : \A n \in scene.sessions :
            z.paths[n] # <<>> /\ IsFiniteSet(z.found[n]) => IsFiniteSet(Reach(z, n)))'
    BY <1>0, ReachFinite, PTL
  <2>2. (x \in Reading)' /\ (k \in scene.sessions)'
    BY <1>0 DEF Reading, CursorOf, Table
  <2> QED BY <1>0, <2>1, <2>2
<1> QED BY <1>3, <1>4, FewerIn

LEMMA CountKept ==
  ASSUME SessionsOk, NEW s \in scene.sessions, NEW b, Happens(s, b), NEW x \in Reading,
         NEW y \in Since, NEW z \in Since, Begun(x, y), Noted(x, y, z),
         NEW k \in scene.sessions, CountOk(x, y, k)
  PROVE  CountOk(x, z, k)'
<1>1. scene' = scene
  BY DEF Happens
<1>2. x.paths[k] # <<>> /\ IsFiniteSet(x.found[k]) /\ x.cursors[k] \in CursorOf \union {None}
  BY ReadingIs DEF CountOk, Begun
<1>3. /\ Behind(x.cursors[k], session'[k].cursor)
      /\ session'[k].cursor = x.cursors[k] =>
            session[k].cursor = x.cursors[k] /\ session'[k].cursor = session[k].cursor
  BY <1>2, CursorKept DEF CountOk
<1>4. Behind(x.cursors[k], session[k].cursor)'
  BY <1>1, <1>3 DEF Behind
<1>5. y.counts[k] # {} /\ y.counts[k] \subseteq z.counts[k]
  BY DEF CountOk, Noted
<1>6. x.stage # "done" => Cardinality(News(session, k, Key(x, k))') \in z.counts[k]
  <2>1. News(session, k, Key(x, k))' = News(session', k, Key(x, k))
    BY <1>1 DEF News, Others
  <2> QED BY <1>5, <2>1 DEF Noted
<1>7. ASSUME k \notin x.unknown
      PROVE  \E lo \in z.counts[k] : lo <= Cardinality(Reach(x, k)')
  <2>1. PICK lo \in y.counts[k] : lo <= Cardinality(Reach(x, k))
    BY <1>7 DEF CountOk
  <2>2. lo \in Nat
    BY DEF Since
  <2> QED BY <1>2, <1>5, <2>1, <2>2, ReachGrows
<1>8. ASSUME k \notin x.unknown, Unverified(x, k), session'[k].cursor = x.cursors[k]
      PROVE  x.found[k] \subseteq News(session, k, Key(x, k))'
  <2>1. News(session, k, Key(x, k))' = News(session', k, Key(x, k))
    BY <1>1 DEF News, Others
  <2>2. Key(x, k) \in Member
    BY <1>2, ReadingIs
  <2>3. x.found[k] \subseteq News(session, k, Key(x, k))
    BY <1>3, <1>8 DEF CountOk
  <2>4. News(session, k, Key(x, k)) \subseteq News(session', k, Key(x, k))
    BY <1>3, <1>8, <2>2, NewsGrow
  <2> QED BY <2>1, <2>3, <2>4
<1>9. ASSUME k \notin x.unknown, ~Unverified(x, k)
      PROVE  \E hi \in z.counts[k] : Cardinality(x.found[k]) <= hi
  BY <1>5, <1>9 DEF CountOk
<1>10. k \notin x.unknown => Matches(x.cursors[k], Key(x, k))
  BY DEF CountOk
<1> QED BY <1>2, <1>4, <1>5, <1>6, <1>7, <1>8, <1>9, <1>10 DEF CountOk

LEMMA WitnessKept ==
  ASSUME SessionsOk, NEW s \in scene.sessions, NEW b, Happens(s, b), NEW x \in Reading,
         NEW y \in Since, NEW z \in Since, Begun(x, y), Noted(x, y, z),
         NEW k \in scene.sessions, CountOk(x, y, k), NEW w \in Workstreams, Witness(x, w, k)
  PROVE  w \in z.stirred \/ Witness(x, w, k)'
<1>1. scene' = scene /\ x.paths[k] # <<>> /\ x.cursors[k] \in CursorOf \union {None}
  BY ReadingIs DEF Happens, CountOk
<1>2. Key(x, k).ws = w /\ Key(x, k) \in Member
  BY <1>1, ReadingIs DEF Witness
<1>3. CASE k \in x.unknown \/ x.found[k] # {} \/ k \in x.blocked
  BY <1>2, <1>3 DEF Witness
<1>4. CASE x.stage = "scans" /\ \E f \in x.todo \ {k} : Of(x, k, f) # {}
  <2>1. PICK f \in x.todo \ {k} : Of(x, k, f) # {}
    BY <1>4
  <2>2. f \in scene.sessions
    BY <1>4 DEF Begun
  <2>3. Of(x, k, f) \subseteq Of(x, k, f)'
    BY <1>1, <1>2, <2>2, OfGrows DEF Of
  <2> QED BY <1>2, <1>4, <2>1, <2>3 DEF Witness
<1>5. CASE Unverified(x, k) /\ session[k].cursor # x.cursors[k]
  <2>1. session'[k].cursor # x.cursors[k]
    BY <1>1, <1>5, CursorKept DEF CountOk
  <2> QED BY <1>2, <1>5, <2>1 DEF Witness
<1>6. CASE Unattached(x, k) /\ session[k].blocked /\ session[k].owed.ws = w
  <2>1. x.stage # "done"
    BY <1>6 DEF Unattached
  <2>2. CASE ~session'[k].blocked
    BY <1>6, <2>1, <2>2 DEF Noted
  <2>3. CASE session'[k].blocked
    <3>1. session'[k].owed.ws = w
      <4>1. /\ session' = [session EXCEPT ![s] = b] /\ Moves(session[s], b)
            /\ session \in [scene.sessions -> SessionOf]
        BY DEF Happens, SessionsOk
      <4> QED BY <1>6, <2>3, <4>1 DEF Moves
    <3> QED BY <1>2, <1>6, <2>3, <3>1 DEF Witness
  <2> QED BY <2>2, <2>3
<1> QED BY <1>3, <1>4, <1>5, <1>6 DEF Witness

LEMMA CalmKept ==
  ASSUME SessionsOk, NEW s \in scene.sessions, NEW b, Happens(s, b), NEW x \in Reading,
         NEW y \in Since, NEW z \in Since, Begun(x, y), Noted(x, y, z), x.stage # "done",
         NEW k \in scene.sessions, NEW w \in Workstreams, w \notin z.stirred, Calm(x, w, k)
  PROVE  Calm(x, w, k)'
<1>1. /\ session' = [session EXCEPT ![s] = b] /\ Moves(session[s], b) /\ Placed(b, clock')
      /\ session \in [scene.sessions -> SessionOf]
  BY DEF Happens, SessionsOk
<1>2. ~(session[k].lease # w /\ session'[k].lease = w)
  BY DEF Noted
<1>3. ASSUME PathRead(x, k), Current(session'[k].path).ws = w
      PROVE  x.paths[k] = session'[k].path
  <2>1. CASE session'[k].path = session[k].path
    BY <1>3, <2>1 DEF Calm
  <2>2. CASE session'[k].path # session[k].path
    <3>1. k = s /\ session'[k] = b
      BY <1>1, <2>2
    <3>2. session[k].lease = None /\ b.lease # None /\ b.lease = Current(b.path).ws
      BY <1>1, <2>2, <3>1 DEF Moves, Placed
    <3>3. session'[k].lease = w /\ w # None
      BY <1>3, <3>1, <3>2
    <3> QED BY <1>2, <3>2, <3>3
  <2> QED BY <2>1, <2>2
<1> QED BY <1>2, <1>3 DEF Calm

LEMMA SessionReadOk ==
  ASSUME SessionsOk, NEW s \in scene.sessions, NEW b, Happens(s, b), NEW r \in Readers,
         ReadsOk
  PROVE  ReadOk(reads[r], since[r])'
<1>0. scene' = scene /\ reads' = reads
  BY DEF Happens
<1> PICK x : x = reads[r]
  OBVIOUS
<1> PICK y : y = since[r]
  OBVIOUS
<1> PICK z : z = since'[r]
  OBVIOUS
<1>1. ReadOk(x, y) /\ reads'[r] = x
  BY <1>0 DEF ReadsOk
<1> SUFFICES ASSUME x # NoReading PROVE ReadOk(x, z)'
  BY <1>1 DEF ReadOk
<1>2. Begun(x, y) /\ x \in Reading /\ y \in Since
  BY <1>1 DEF ReadOk, Begun
<1>3. Noted(x, y, z) /\ z \in Since
  BY <1>2, NoteIs DEF Noted
<1>4. Begun(x, z)'
  <2>1. Reading' = Reading /\ Since' = Since
    BY <1>0 DEF Reading, Since, Table, CursorOf
  <2>2. \A k \in scene.sessions : z.counts[k] # {} => x.paths[k] # <<>>
    BY <1>2, <1>3 DEF Noted, Begun
  <2> QED BY <1>0, <1>2, <1>3, <2>1, <2>2 DEF Begun
<1>5. ASSUME ~x.refused, NEW k \in scene.sessions, CursorRead(x, k)
      PROVE  CountOk(x, z, k)'
  <2>1. CountOk(x, y, k)
    BY <1>1, <1>5 DEF ReadOk
  <2> QED BY <1>2, <1>3, <2>1, CountKept
<1>6. ASSUME ~x.refused PROVE QuietOk(x, z)'
  <2>0. QuietOk(x, y)
    BY <1>1, <1>6 DEF ReadOk
  <2>1. ASSUME x.stage # "done", NEW w \in Workstreams PROVE Watched(x, z, w)'
    <3>1. Watched(x, y, w)
      BY <2>0, <2>1 DEF QuietOk
    <3>2. Quiet(session, w)' => w \in z.quiet
      <4>1. Quiet(session, w)' => Quiet(session', w)
        BY <1>0 DEF Quiet, News, Others
      <4> QED BY <1>3, <2>1, <4>1 DEF Noted
    <3>3. w \notin z.stirred => \A k \in scene.sessions : Calm(x, w, k)'
      <4>1. w \notin z.stirred => w \notin y.stirred
        BY <1>3 DEF Noted
      <4> QED BY <1>2, <1>3, <2>1, <3>1, <4>1, CalmKept DEF Watched
    <3> QED BY <1>0, <3>2, <3>3 DEF Watched
  <2>2. ASSUME x.stage \in {"scans", "revalidate", "publish", "done"}, NEW w \in Workstreams
        PROVE  Explained(x, z, w)'
    <3>1. Explained(x, y, w)
      BY <2>0, <2>2 DEF QuietOk
    <3> SUFFICES ASSUME \A k \in scene.sessions : x.leases[k] # w
                 PROVE  \/ w \in z.quiet \union z.stirred
                        \/ \E k \in scene.sessions : Witness(x, w, k)'
      BY <1>0 DEF Explained
    <3>2. CASE w \in y.quiet \union y.stirred
      BY <1>3, <3>2 DEF Noted
    <3>3. ASSUME NEW k \in scene.sessions, Witness(x, w, k)
          PROVE  w \in z.stirred \/ Witness(x, w, k)'
      <4>1. CountOk(x, y, k)
        BY <1>1, <1>6, <2>2 DEF ReadOk, CursorRead
      <4> QED BY <1>2, <1>3, <3>3, <4>1, WitnessKept
    <3> QED BY <3>1, <3>2, <3>3 DEF Explained
  <2> QED BY <2>1, <2>2 DEF QuietOk
<1> QED BY <1>0, <1>4, <1>5, <1>6 DEF ReadOk, CursorRead

-----------------------------------------------------------------------------
(* What a step of the reading itself does *)

Following(stage) ==
    CASE stage = "records" -> "participation"
      [] stage = "participation" -> "feeds"
      [] stage = "feeds" -> "active"
      [] stage = "active" -> "cursors"
      [] stage = "cursors" -> "scans"
      [] stage = "scans" -> "revalidate"
      [] stage = "revalidate" -> "publish"
      [] OTHER -> "done"

(* u is the reading when the file of s has been read, z when it has gone on. *)
Stepped(u, s, z) ==
    /\ z \in Reading
    /\ z.refused = u.refused /\ z.records = u.records /\ z.paths = u.paths
    /\ z.leases = u.leases /\ z.cursors = u.cursors /\ z.found = u.found
    /\ z.unknown = u.unknown /\ z.blocked = u.blocked
    /\ \/ u.todo \ {s} # {} /\ z.stage = u.stage /\ z.todo = u.todo \ {s}
       \/ u.todo \ {s} = {} /\ scene.sessions = {} /\ z.stage = "done"
       \/ /\ u.todo \ {s} = {} /\ scene.sessions # {}
          /\ z.stage = Following(u.stage) /\ z.todo = scene.sessions

LEMMA StagesAre ==
  ASSUME NEW stage \in StageNames \ {"done"}
  PROVE  LET i == CHOOSE i \in DOMAIN Stages : Stages[i] = stage IN
         Stages[i + 1] = Following(stage) /\ Following(stage) \in StageNames
<1> DEFINE i == CHOOSE i \in DOMAIN Stages : Stages[i] = stage
<1>1. DOMAIN Stages = 1..9
  BY DEF Stages
<1>2. \E j \in 1..8 : Stages[j] = stage /\ Stages[j + 1] = Following(stage)
  <2>1. /\ Stages[1] = "records" /\ Stages[2] = "participation" /\ Stages[3] = "feeds"
        /\ Stages[4] = "active" /\ Stages[5] = "cursors" /\ Stages[6] = "scans"
        /\ Stages[7] = "revalidate" /\ Stages[8] = "publish" /\ Stages[9] = "done"
    BY DEF Stages
  <2>2. /\ Stages[1 + 1] = "participation" /\ Stages[2 + 1] = "feeds"
        /\ Stages[3 + 1] = "active" /\ Stages[4 + 1] = "cursors" /\ Stages[5 + 1] = "scans"
        /\ Stages[6 + 1] = "revalidate" /\ Stages[7 + 1] = "publish" /\ Stages[8 + 1] = "done"
    BY DEF Stages
  <2>3. stage \in {"records", "participation", "feeds", "active", "cursors", "scans",
                   "revalidate", "publish"}
    BY DEF StageNames
  <2>4. /\ 1 \in 1..8 /\ 2 \in 1..8 /\ 3 \in 1..8 /\ 4 \in 1..8
        /\ 5 \in 1..8 /\ 6 \in 1..8 /\ 7 \in 1..8 /\ 8 \in 1..8
    OBVIOUS
  <2> QED BY <2>1, <2>2, <2>3, <2>4 DEF Following
<1>3. PICK j \in 1..8 : Stages[j] = stage /\ Stages[j + 1] = Following(stage)
  BY <1>2
<1>4. \A k \in 1..9 : Stages[k] = stage => k = j
  BY <1>3 DEF Stages
<1>5. i \in DOMAIN Stages /\ Stages[i] = stage
  BY <1>1, <1>3
<1>6. i = j
  BY <1>1, <1>4, <1>5
<1>7. Following(stage) \in StageNames
  BY DEF Following, StageNames
<1> QED BY <1>3, <1>6, <1>7

LEMMA AdvanceIs ==
  ASSUME SessionsOk, NEW u \in Reading, u.stage # "done", NEW s
  PROVE  Stepped(u, s, Advance(u, s))
<1>1. scene.sessions \subseteq Nat
  BY SceneIs DEF SessionsOk
<1>2. u.stage \in StageNames \ {"done"} /\ u.todo \ {s} \subseteq Nat
  BY DEF Reading
<1> DEFINE i == CHOOSE i \in DOMAIN Stages : Stages[i] = u.stage
<1>3. Stages[i + 1] = Following(u.stage) /\ Following(u.stage) \in StageNames
  BY <1>2, StagesAre
<1>4. Advance(u, s) = IF u.todo \ {s} # {} THEN [u EXCEPT !.todo = u.todo \ {s}]
                      ELSE IF scene.sessions = {} THEN [u EXCEPT !.stage = "done", !.todo = {}]
                      ELSE [u EXCEPT !.stage = Stages[i + 1], !.todo = scene.sessions]
  BY DEF Advance
<1> HIDE DEF i
<1>5. CASE u.todo \ {s} # {}
  BY <1>2, <1>4, <1>5 DEF Stepped, Reading
<1>6. CASE u.todo \ {s} = {} /\ scene.sessions = {}
  <2>1. "done" \in StageNames /\ {} \in SUBSET Nat
    BY DEF StageNames
  <2> DEFINE z == [u EXCEPT !.stage = "done", !.todo = {}]
  <2>2. z \in Reading /\ z.stage = "done"
    BY <2>1 DEF Reading
  <2>3. /\ z.refused = u.refused /\ z.records = u.records /\ z.paths = u.paths
        /\ z.leases = u.leases /\ z.cursors = u.cursors /\ z.found = u.found
        /\ z.unknown = u.unknown /\ z.blocked = u.blocked
    BY DEF Reading
  <2>4. Advance(u, s) = z
    BY <1>4, <1>6
  <2> HIDE DEF z
  <2> QED BY <1>6, <2>2, <2>3, <2>4 DEF Stepped
<1>7. CASE u.todo \ {s} = {} /\ scene.sessions # {}
  BY <1>1, <1>2, <1>3, <1>4, <1>7 DEF Stepped, Reading
<1> QED BY <1>5, <1>6, <1>7

(* The reading has been going well so far. *)
Going(x, y) == x \in Reading /\ y \in Since /\ ReadOk(x, y) /\ x.stage # "done"

LEMMA GoingIs ==
  ASSUME NEW x, NEW y, Going(x, y)
  PROVE  /\ x # NoReading /\ ~x.refused /\ Begun(x, y) /\ QuietOk(x, y)
         /\ \A s \in scene.sessions : CursorRead(x, s) => CountOk(x, y, s)
<1>1. x # NoReading
  BY DEF Going, Reading, NoReading, StageNames
<1> QED BY <1>1 DEF Going, ReadOk, Begun

(* The files before the cursors *)
LEMMA EarlyStep ==
  ASSUME SessionsOk, NEW x, NEW y, Going(x, y),
         x.stage \in {"records", "participation", "feeds", "active"},
         NEW s \in x.todo, NEW u \in Reading, NEW z, Stepped(u, s, z),
         u.stage = x.stage, u.todo = x.todo, u.found = x.found, u.refused = x.refused,
         u.paths = IF x.stage = "participation"
                   THEN [x.paths EXCEPT ![s] = session[s].path] ELSE x.paths,
         u.leases = IF x.stage = "active"
                    THEN [x.leases EXCEPT ![s] = session[s].lease] ELSE x.leases
  PROVE  ReadOk(z, y)
<1>1. /\ x \in Reading /\ y \in Since /\ ~x.refused /\ Begun(x, y) /\ QuietOk(x, y)
  BY GoingIs DEF Going
<1>2. /\ z \in Reading /\ z.refused = x.refused /\ z.paths = u.paths /\ z.leases = u.leases
      /\ z.found = x.found
  BY DEF Stepped
<1>3. x.stage # "records" => s \in scene.sessions
  BY <1>1 DEF Begun
<1>4. ASSUME NEW k \in scene.sessions
      PROVE  /\ z.paths[k] = IF x.stage = "participation" /\ k = s THEN session[s].path ELSE x.paths[k]
             /\ z.leases[k] = IF x.stage = "active" /\ k = s THEN session[s].lease ELSE x.leases[k]
  <2>1. DOMAIN x.paths = scene.sessions /\ DOMAIN x.leases = scene.sessions
    BY <1>1 DEF Reading
  <2> QED BY <1>2, <2>1
<1>5. /\ z.stage = "done" => scene.sessions = {}
      /\ z.stage \in {"records", "participation", "feeds", "active", "cursors", "done"}
      /\ z.stage = "records" => FALSE
      /\ z.stage # "done" => z.todo \subseteq scene.sessions
      /\ z.stage = "cursors" => z.todo = scene.sessions
  BY <1>1, <1>3 DEF Stepped, Following, Begun
<1>6. Begun(z, y)
  <2>1. \A k \in scene.sessions : session[k].path # <<>>
    BY SessionIs DEF Placed
  <2>2. \A k \in scene.sessions : y.counts[k] # {} => z.paths[k] # <<>>
    BY <1>1, <1>4, <2>1 DEF Begun
  <2>3. \A k \in scene.sessions : PathRead(z, k) => PathRead(x, k) \/ (x.stage = "participation" /\ k = s)
    BY <1>5 DEF Stepped, PathRead, Following
  <2>4. \A k \in scene.sessions : PathRead(z, k) => z.paths[k] # <<>>
    BY <1>1, <1>4, <2>1, <2>3 DEF Begun
  <2> QED BY <1>1, <1>2, <1>5, <2>2, <2>4 DEF Begun
<1>7. \A k \in scene.sessions : ~CursorRead(z, k)
  BY <1>5 DEF CursorRead
<1>8. ASSUME NEW w \in Workstreams PROVE Watched(z, y, w)
  <2>1. Watched(x, y, w)
    BY <1>1 DEF QuietOk, Going
  <2>2. ASSUME w \notin y.stirred, NEW k \in scene.sessions PROVE Calm(z, w, k)
    <3>1. Calm(x, w, k)
      BY <2>1, <2>2 DEF Watched
    <3>2. LeaseRead(z, k) => LeaseRead(x, k) \/ (x.stage = "active" /\ k = s)
      BY <1>5, <2>2 DEF Stepped, LeaseRead, Following
    <3>3. PathRead(z, k) => PathRead(x, k) \/ (x.stage = "participation" /\ k = s)
      BY <1>5, <2>2 DEF Stepped, PathRead, Following
    <3> QED BY <1>4, <3>1, <3>2, <3>3 DEF Calm
  <2> QED BY <2>1, <2>2 DEF Watched
<1>9. ASSUME z.stage \in {"scans", "revalidate", "publish", "done"}, NEW w \in Workstreams
      PROVE  Explained(z, y, w)
  <2>1. scene.sessions = {}
    BY <1>5, <1>9
  <2>2. Quiet(session, w)
    BY <2>1 DEF Quiet
  <2>3. Watched(x, y, w)
    BY <1>1 DEF QuietOk, Going
  <2> QED BY <2>2, <2>3 DEF Explained, Watched
<1>10. QuietOk(z, y)
  BY <1>8, <1>9 DEF QuietOk
<1> QED BY <1>6, <1>7, <1>10 DEF ReadOk

(* The count of one of the others stands. *)
LEMMA OtherCount ==
  ASSUME NEW x, NEW y, NEW z, NEW v, NEW k, CountOk(x, y, k),
         x.stage # "done",
         z.paths = x.paths, z.cursors = x.cursors, v.counts[k] = y.counts[k],
         k \notin z.unknown => k \notin x.unknown,
         k \notin z.unknown => z.found[k] = x.found[k] /\ Reach(z, k) = Reach(x, k),
         k \notin z.unknown => (Unverified(z, k) <=> Unverified(x, k))
  PROVE  CountOk(z, v, k)
<1>1. Key(z, k) = Key(x, k)
  BY DEF Key
<1> QED BY <1>1 DEF CountOk

LEMMA CursorStep ==
  ASSUME SessionsOk, NEW x, NEW y, Going(x, y), x.stage = "cursors", NEW s \in x.todo,
         NEW u \in Reading, NEW z, Stepped(u, s, z),
         u.stage = x.stage, u.todo = x.todo, u.found = x.found, u.refused = x.refused,
         u.paths = x.paths, u.leases = x.leases,
         u.cursors = [x.cursors EXCEPT ![s] = session[s].cursor],
         u.unknown = IF Matches(session[s].cursor, Key(x, s)) THEN x.unknown
                     ELSE x.unknown \union {s},
         NEW v, v = [y EXCEPT !.counts[s] = {Cardinality(News(session, s, Key(x, s)))}]
  PROVE  ReadOk(z, v)
<1>1. /\ x \in Reading /\ y \in Since /\ ~x.refused /\ Begun(x, y) /\ QuietOk(x, y)
      /\ \A k \in scene.sessions : CursorRead(x, k) => CountOk(x, y, k)
  BY GoingIs DEF Going
<1>2. /\ z \in Reading /\ z.refused = x.refused /\ z.paths = x.paths /\ z.leases = x.leases
      /\ z.found = x.found /\ z.unknown = u.unknown /\ z.cursors = u.cursors
  BY DEF Stepped
<1>3. s \in scene.sessions /\ x.todo \subseteq scene.sessions
  BY <1>1 DEF Begun
<1>4. /\ z.stage \in {"cursors", "scans"}
      /\ z.stage = "cursors" => z.todo = x.todo \ {s}
      /\ z.stage = "scans" => x.todo \ {s} = {} /\ z.todo = scene.sessions
      /\ z.todo \subseteq scene.sessions
  BY <1>3 DEF Stepped, Following
<1>5. \A k \in scene.sessions : x.found[k] = {} /\ z.found[k] = {}
  BY <1>1, <1>2 DEF Begun
<1>6. \A k \in scene.sessions : x.paths[k] # <<>> /\ Key(x, k) \in Member
  BY <1>1, ReadingIs DEF Begun, PathRead
<1>7. ASSUME NEW k \in scene.sessions
      PROVE  z.cursors[k] = IF k = s THEN session[s].cursor ELSE x.cursors[k]
  <2>1. DOMAIN x.cursors = scene.sessions
    BY <1>1 DEF Reading
  <2> QED BY <1>2, <2>1
<1> DEFINE n == Cardinality(News(session, s, Key(x, s)))
<1>8. n \in Nat
  BY <1>3, <1>6, NewsIs
<1>9. /\ v \in Since /\ v.quiet = y.quiet /\ v.stirred = y.stirred
      /\ \A k \in scene.sessions : v.counts[k] = IF k = s THEN {n} ELSE y.counts[k]
  <2> HIDE DEF n
  <2>1. v = [y EXCEPT !.counts[s] = {n}]
    BY DEF n
  <2>2. PICK c \in [scene.sessions -> SUBSET Nat] : c = y.counts
    BY <1>1 DEF Since
  <2>3. PICK e \in [scene.sessions -> SUBSET Nat] : e = [c EXCEPT ![s] = {n}]
    BY <1>8
  <2>4. v = [y EXCEPT !.counts = e]
    BY <2>1, <2>2, <2>3
  <2>5. \A k \in scene.sessions : e[k] = IF k = s THEN {n} ELSE c[k]
    BY <2>3
  <2>6. v \in Since /\ v.quiet = y.quiet /\ v.stirred = y.stirred /\ v.counts = e
    BY <1>1, <2>3, <2>4 DEF Since
  <2> QED BY <2>2, <2>5, <2>6
<1> HIDE DEF n
<1>10. Begun(z, v)
  <2>1. \A k \in scene.sessions : v.counts[k] # {} => z.paths[k] # <<>>
    BY <1>2, <1>6
  <2> QED BY <1>1, <1>2, <1>4, <1>5, <1>6, <1>9, <2>1 DEF Begun
<1>11. \A k \in scene.sessions : Key(z, k) = Key(x, k) /\ Unverified(z, k)
  BY <1>2, <1>4 DEF Key, Unverified
<1>12. ASSUME NEW k \in scene.sessions, CursorRead(z, k) PROVE CountOk(z, v, k)
  <2>1. CASE k = s
    <3>1. z.cursors[k] = session[k].cursor /\ session[k].cursor \in CursorOf \union {None}
      BY <1>7, <2>1, SessionIs
    <3>2. v.counts[k] = {n} /\ z.stage # "done"
      BY <1>4, <1>9, <2>1
    <3>3. Behind(z.cursors[k], session[k].cursor)
      BY <3>1, BehindSame
    <3>4. ASSUME k \notin z.unknown
          PROVE  /\ Matches(z.cursors[k], Key(z, k))
                 /\ Reach(z, k) = News(session, k, Key(z, k))
      <4>1. Matches(session[k].cursor, Key(z, k))
        BY <1>2, <1>11, <2>1, <3>4
      <4>2. News(session, k, Key(z, k)) =
               UNION {NewsIn(f, session[f].feed, session[k].cursor, Key(z, k)) : f \in Others(k)}
        BY <4>1 DEF News
      <4>3. \A f \in Others(k) : Unscanned(z, f)
        BY <1>4 DEF Unscanned, Others
      <4>4. {f \in Others(k) : Unscanned(z, f)} = Others(k)
        BY <4>3
      <4> QED BY <1>5, <3>1, <4>1, <4>2, <4>4 DEF Reach, Of
    <3>5. n = Cardinality(News(session, k, Key(z, k)))
      BY <1>11, <2>1 DEF n
    <3>6. /\ z.paths[k] # <<>> /\ Unverified(z, k) /\ n <= n /\ n \in v.counts[k]
          /\ z.found[k] \subseteq News(session, k, Key(z, k))
      BY <1>2, <1>5, <1>6, <1>8, <1>11, <3>2
    <3>7. k \notin z.unknown => \E lo \in v.counts[k] : lo <= Cardinality(Reach(z, k))
      BY <3>4, <3>5, <3>6
    <3>8. v.counts[k] # {} /\ Cardinality(News(session, k, Key(z, k))) \in v.counts[k]
      BY <3>5, <3>6
    <3> QED BY <3>3, <3>4, <3>6, <3>7, <3>8 DEF CountOk
  <2>2. CASE k # s
    <3>1. CursorRead(x, k)
      BY <1>4, <1>12, <2>2 DEF CursorRead
    <3>2. CountOk(x, y, k)
      BY <1>1, <3>1
    <3>3. /\ z.cursors[k] = x.cursors[k] /\ v.counts[k] = y.counts[k] /\ z.found[k] = x.found[k]
          /\ k \in z.unknown <=> k \in x.unknown
      BY <1>2, <1>5, <1>7, <1>9, <2>2
    <3>4. Reach(z, k) = Reach(x, k)
      <4>1. \A f \in Others(k) : Unscanned(z, f) /\ Unscanned(x, f)
        BY <1>4 DEF Unscanned, Others
      <4>2. \A f : Of(z, k, f) = Of(x, k, f)
        BY <1>11, <3>3 DEF Of
      <4>3. {f \in Others(k) : Unscanned(z, f)} = {f \in Others(k) : Unscanned(x, f)}
        BY <4>1
      <4> QED BY <3>3, <4>2, <4>3 DEF Reach
    <3>5. Unverified(x, k)
      BY DEF Unverified
    <3> QED BY <1>2, <1>4, <1>11, <3>2, <3>3, <3>4, <3>5 DEF CountOk
  <2> QED BY <2>1, <2>2
<1>13. ASSUME NEW w \in Workstreams PROVE Watched(z, v, w)
  <2>1. Watched(x, y, w)
    BY <1>1 DEF QuietOk, Going
  <2>2. \A k \in scene.sessions : Calm(x, w, k) => Calm(z, w, k)
    BY <1>2 DEF Calm, LeaseRead, PathRead
  <2> QED BY <1>9, <2>1, <2>2 DEF Watched
<1>14. ASSUME z.stage = "scans", NEW w \in Workstreams PROVE Explained(z, v, w)
  <2> SUFFICES ASSUME \A k \in scene.sessions : z.leases[k] # w, w \notin v.quiet \union v.stirred
               PROVE  \E k \in scene.sessions : Witness(z, w, k)
    BY DEF Explained
  <2>1. ~Quiet(session, w) /\ \A k \in scene.sessions : Calm(z, w, k)
    BY <1>13 DEF Watched
  <2>2. \A k \in scene.sessions : session[k].lease # w
    BY <1>14, <2>1 DEF Calm, LeaseRead
  <2>3. PICK k \in scene.sessions :
          /\ Current(session[k].path).ws = w
          /\ News(session, k, Current(session[k].path)) # {} \/ session[k].blocked
    BY <2>1, <2>2 DEF Quiet
  <2>4. Key(z, k) = Current(session[k].path)
    BY <1>14, <2>1, <2>3 DEF Calm, PathRead, Key
  <2>5. CASE session[k].blocked
    <3>1. session[k].owed.ws = w
      BY <2>3, <2>5, SessionIs DEF Placed
    <3> QED BY <1>14, <2>3, <2>4, <2>5, <3>1 DEF Witness, Unattached
  <2>6. CASE k \in z.unknown
    BY <2>3, <2>4, <2>6 DEF Witness
  <2>7. CASE session[k].cursor # z.cursors[k]
    BY <1>11, <2>3, <2>4, <2>7 DEF Witness
  <2>8. CASE k \notin z.unknown /\ session[k].cursor = z.cursors[k] /\ ~session[k].blocked
    <3>1. Matches(z.cursors[k], Key(z, k))
      BY <1>12, <1>14, <2>8 DEF CountOk, CursorRead
    <3>2. News(session, k, Key(z, k)) = UNION {Of(z, k, f) : f \in Others(k)}
      BY <2>8, <3>1 DEF News, Of
    <3>3. PICK f \in Others(k) : Of(z, k, f) # {}
      BY <2>3, <2>4, <2>8, <3>2
    <3>4. f \in z.todo \ {k}
      BY <1>4, <1>14 DEF Others
    <3> QED BY <1>14, <2>3, <2>4, <3>3, <3>4 DEF Witness
  <2> QED BY <2>5, <2>6, <2>7, <2>8
<1>15. QuietOk(z, v)
  BY <1>4, <1>13, <1>14 DEF QuietOk
<1> QED BY <1>10, <1>12, <1>15 DEF ReadOk

LEMMA ScanStep ==
  ASSUME SessionsOk, NEW x, NEW y, Going(x, y), x.stage = "scans", NEW f \in x.todo,
         NEW u \in Reading, NEW z, Stepped(u, f, z),
         u.stage = x.stage, u.todo = x.todo, u.refused = x.refused,
         u.paths = x.paths, u.leases = x.leases, u.cursors = x.cursors, u.blocked = x.blocked,
         NEW needs, needs = Others(f) \ x.unknown,
         u.found = [k \in scene.sessions |-> IF k \in needs THEN x.found[k] \union Of(x, k, f)
                                                           ELSE x.found[k]],
         u.unknown = IF session[f].torn THEN x.unknown \union needs ELSE x.unknown
  PROVE  ReadOk(z, y)
<1>1. /\ x \in Reading /\ y \in Since /\ ~x.refused /\ Begun(x, y) /\ QuietOk(x, y)
      /\ \A k \in scene.sessions : CursorRead(x, k) => CountOk(x, y, k)
  BY GoingIs DEF Going
<1>2. /\ z \in Reading /\ z.refused = x.refused /\ z.paths = x.paths /\ z.leases = x.leases
      /\ z.found = u.found /\ z.unknown = u.unknown /\ z.cursors = x.cursors
      /\ z.blocked = x.blocked
  BY DEF Stepped
<1>3. f \in scene.sessions /\ x.todo \subseteq scene.sessions
  BY <1>1 DEF Begun
<1>4. /\ z.stage \in {"scans", "revalidate"}
      /\ z.stage = "scans" => z.todo = x.todo \ {f}
      /\ z.stage = "revalidate" => x.todo \ {f} = {} /\ z.todo = scene.sessions
      /\ z.todo \subseteq scene.sessions
  BY <1>3 DEF Stepped, Following
<1>5. \A k \in scene.sessions :
         /\ z.found[k] = IF k \in needs THEN x.found[k] \union Of(x, k, f) ELSE x.found[k]
         /\ k \notin z.unknown => k \notin x.unknown
         /\ k \notin z.unknown => (k \in needs <=> k # f)
  BY <1>2 DEF Others
<1>6. \A k \in scene.sessions : CountOk(x, y, k)
  BY <1>1 DEF CursorRead
<1>7. \A k \in scene.sessions : /\ x.paths[k] # <<>> /\ Key(x, k) \in Member
                                /\ Key(z, k) = Key(x, k)
                                /\ Unverified(z, k) /\ Unverified(x, k)
                                /\ x.cursors[k] \in CursorOf \union {None}
  BY <1>1, <1>2, <1>4, <1>6, ReadingIs DEF CountOk, Key, Unverified
<1>8. \A k, g \in scene.sessions : Of(z, k, g) = Of(x, k, g)
  BY <1>2, <1>7 DEF Of
<1>9. \A k \in scene.sessions : IsFiniteSet(Of(x, k, f))
  BY <1>1, <1>3, <1>7, OfIs
<1>10. Begun(z, y)
  <2>1. ASSUME NEW k \in scene.sessions PROVE IsFiniteSet(z.found[k])
    <3>1. IsFiniteSet(x.found[k]) /\ IsFiniteSet(Of(x, k, f))
      BY <1>1, <1>9 DEF Begun
    <3>2. IsFiniteSet(x.found[k] \union Of(x, k, f))
      BY <3>1, FS_Union
    <3> QED BY <1>5, <3>1, <3>2
  <2> QED BY <1>1, <1>2, <1>4, <1>7, <2>1 DEF Begun
<1>11. ASSUME NEW k \in scene.sessions PROVE CountOk(z, y, k)
  <2>1. ASSUME k \notin z.unknown PROVE Reach(z, k) = Reach(x, k)
    <3> DEFINE A == {g \in Others(k) : Unscanned(z, g)}
               B == {g \in Others(k) : Unscanned(x, g)}
    <3>1. A \subseteq scene.sessions /\ B \subseteq scene.sessions
      BY DEF Others
    <3>2. B = IF k = f THEN A ELSE A \union {f}
      BY <1>3, <1>4 DEF Unscanned, Others
    <3>3. /\ Reach(z, k) = z.found[k] \union UNION {Of(x, k, g) : g \in A}
          /\ Reach(x, k) = x.found[k] \union UNION {Of(x, k, g) : g \in B}
      <4>1. \A g \in A : Of(z, k, g) = Of(x, k, g)
        BY <1>8, <3>1
      <4>2. {Of(z, k, g) : g \in A} = {Of(x, k, g) : g \in A}
        BY <4>1
      <4> QED BY <4>2 DEF Reach
    <3> HIDE DEF A, B
    <3>4. CASE k = f
      BY <1>5, <2>1, <3>2, <3>3, <3>4
    <3>5. CASE k # f
      <4>1. z.found[k] = x.found[k] \union Of(x, k, f) /\ B = A \union {f}
        BY <1>5, <2>1, <3>2, <3>5
      <4>2. UNION {Of(x, k, g) : g \in B} = Of(x, k, f) \union UNION {Of(x, k, g) : g \in A}
        BY <4>1
      <4> QED BY <3>3, <4>1, <4>2
    <3> QED BY <3>4, <3>5
  <2>2. ASSUME k \notin z.unknown, session[k].cursor = z.cursors[k]
        PROVE  z.found[k] \subseteq News(session, k, Key(z, k))
    <3>1. x.found[k] \subseteq News(session, k, Key(x, k)) /\ Matches(x.cursors[k], Key(x, k))
      BY <1>2, <1>5, <1>6, <1>7, <2>2 DEF CountOk
    <3>2. News(session, k, Key(x, k)) = UNION {Of(x, k, g) : g \in Others(k)}
      BY <1>2, <2>2, <3>1 DEF News, Of
    <3>3. k # f => Of(x, k, f) \subseteq News(session, k, Key(x, k))
      BY <1>3, <3>2 DEF Others
    <3> QED BY <1>5, <1>7, <2>2, <3>1, <3>3
  <2>3. k \notin z.unknown => \E lo \in y.counts[k] : lo <= Cardinality(Reach(z, k))
    BY <1>5, <1>6, <2>1 DEF CountOk
  <2> QED BY <1>2, <1>4, <1>5, <1>6, <1>7, <2>2, <2>3 DEF CountOk
<1>12. ASSUME NEW w \in Workstreams PROVE Watched(z, y, w)
  <2>1. Watched(x, y, w)
    BY <1>1 DEF QuietOk, Going
  <2>2. \A k \in scene.sessions : Calm(x, w, k) => Calm(z, w, k)
    BY <1>2 DEF Calm, LeaseRead, PathRead
  <2> QED BY <2>1, <2>2 DEF Watched
<1>13. ASSUME NEW w \in Workstreams PROVE Explained(z, y, w)
  <2>1. Explained(x, y, w)
    BY <1>1 DEF QuietOk
  <2>2. ASSUME NEW k \in scene.sessions, Witness(x, w, k) PROVE Witness(z, w, k)
    <3>0. Key(z, k).ws = w
      BY <1>7, <2>2 DEF Witness
    <3>1. CASE k \in x.unknown \/ x.found[k] # {} \/ k \in x.blocked
      BY <1>2, <1>5, <3>0, <3>1 DEF Witness
    <3>2. CASE Unverified(x, k) /\ session[k].cursor # x.cursors[k]
      BY <1>2, <1>7, <3>0, <3>2 DEF Witness
    <3>3. CASE Unattached(x, k) /\ session[k].blocked /\ session[k].owed.ws = w
      BY <1>4, <3>0, <3>3 DEF Witness, Unattached
    <3>4. CASE \E g \in x.todo \ {k} : Of(x, k, g) # {}
      <4>1. PICK g \in x.todo \ {k} : Of(x, k, g) # {}
        BY <3>4
      <4>2. g \in scene.sessions
        BY <1>3
      <4>3. CASE g = f
        BY <1>5, <3>0, <4>1, <4>3 DEF Witness
      <4>4. CASE g # f
        <5>1. z.stage = "scans" /\ g \in z.todo \ {k} /\ Of(z, k, g) # {}
          BY <1>4, <1>8, <4>1, <4>2, <4>4
        <5> QED BY <3>0, <5>1 DEF Witness
      <4> QED BY <4>3, <4>4
    <3> QED BY <2>2, <3>1, <3>2, <3>3, <3>4 DEF Witness
  <2> QED BY <1>2, <2>1, <2>2 DEF Explained
<1>14. QuietOk(z, y)
  BY <1>12, <1>13 DEF QuietOk
<1> QED BY <1>10, <1>11, <1>14 DEF ReadOk

LEMMA RevalidateStep ==
  ASSUME SessionsOk, NEW x, NEW y, Going(x, y), x.stage = "revalidate", NEW s \in x.todo,
         NEW u \in Reading, NEW z, Stepped(u, s, z),
         u.stage = x.stage, u.todo = x.todo, u.refused = x.refused, u.found = x.found,
         u.paths = x.paths, u.leases = x.leases, u.cursors = x.cursors, u.blocked = x.blocked,
         u.unknown = IF session[s].cursor = x.cursors[s] THEN x.unknown
                     ELSE x.unknown \union {s}
  PROVE  ReadOk(z, y)
<1>1. /\ x \in Reading /\ y \in Since /\ ~x.refused /\ Begun(x, y) /\ QuietOk(x, y)
      /\ \A k \in scene.sessions : CursorRead(x, k) => CountOk(x, y, k)
  BY GoingIs DEF Going
<1>2. /\ z \in Reading /\ z.refused = x.refused /\ z.paths = x.paths /\ z.leases = x.leases
      /\ z.found = x.found /\ z.unknown = u.unknown /\ z.cursors = x.cursors
      /\ z.blocked = x.blocked
  BY DEF Stepped
<1>3. s \in scene.sessions /\ x.todo \subseteq scene.sessions
  BY <1>1 DEF Begun
<1>4. /\ z.stage \in {"revalidate", "publish"}
      /\ z.stage = "revalidate" => z.todo = x.todo \ {s}
      /\ z.stage = "publish" => x.todo \ {s} = {} /\ z.todo = scene.sessions
      /\ z.todo \subseteq scene.sessions
  BY <1>3 DEF Stepped, Following
<1>5. \A k \in scene.sessions :
         /\ CountOk(x, y, k) /\ Key(z, k) = Key(x, k) /\ x.paths[k] # <<>>
         /\ Unverified(z, k) <=> Unverified(x, k) /\ k # s
         /\ k \notin z.unknown => k \notin x.unknown
  BY <1>1, <1>2, <1>4 DEF CursorRead, CountOk, Key, Unverified
<1>6. Begun(z, y)
  BY <1>1, <1>2, <1>4, <1>5 DEF Begun
<1>7. ASSUME NEW k \in scene.sessions PROVE CountOk(z, y, k)
  <2>1. Reach(z, k) = Reach(x, k)
    BY <1>2, <1>4 DEF Reach, Unscanned
  <2>2. ASSUME k \notin z.unknown, ~Unverified(z, k)
        PROVE  \E hi \in y.counts[k] : Cardinality(z.found[k]) <= hi
    <3>1. CASE ~Unverified(x, k)
      BY <1>2, <1>5, <2>2, <3>1 DEF CountOk
    <3>2. CASE Unverified(x, k)
      <4>1. k = s /\ session[k].cursor = x.cursors[k]
        BY <1>2, <1>5, <2>2, <3>2
      <4>2. x.found[k] \subseteq News(session, k, Key(x, k))
        BY <1>5, <2>2, <3>2, <4>1 DEF CountOk
      <4>3. Key(x, k) \in Member
        BY <1>1, <1>5, ReadingIs
      <4>4. Cardinality(News(session, k, Key(x, k))) \in y.counts[k]
        BY <1>5 DEF CountOk, Going
      <4> QED BY <1>2, <4>2, <4>3, <4>4, NewsIs, FewerIn
    <3> QED BY <3>1, <3>2
  <2> QED BY <1>2, <1>4, <1>5, <2>1, <2>2 DEF CountOk
<1>8. ASSUME NEW w \in Workstreams PROVE Watched(z, y, w)
  <2>1. Watched(x, y, w)
    BY <1>1 DEF QuietOk, Going
  <2>2. \A k \in scene.sessions : Calm(x, w, k) => Calm(z, w, k)
    BY <1>2 DEF Calm, LeaseRead, PathRead
  <2> QED BY <2>1, <2>2 DEF Watched
<1>9. ASSUME NEW w \in Workstreams PROVE Explained(z, y, w)
  <2>1. Explained(x, y, w)
    BY <1>1 DEF QuietOk
  <2>2. ASSUME NEW k \in scene.sessions, Witness(x, w, k) PROVE Witness(z, w, k)
    <3>0. Key(z, k).ws = w /\ x.stage # "scans"
      BY <1>5, <2>2 DEF Witness
    <3>1. CASE k \in x.unknown \/ x.found[k] # {} \/ k \in x.blocked
      BY <1>2, <3>0, <3>1 DEF Witness
    <3>2. CASE Unverified(x, k) /\ session[k].cursor # x.cursors[k]
      BY <1>2, <1>5, <3>0, <3>2 DEF Witness
    <3>3. CASE Unattached(x, k) /\ session[k].blocked /\ session[k].owed.ws = w
      BY <1>4, <3>0, <3>3 DEF Witness, Unattached
    <3> QED BY <2>2, <3>0, <3>1, <3>2, <3>3 DEF Witness
  <2> QED BY <1>2, <2>1, <2>2 DEF Explained
<1>10. QuietOk(z, y)
  BY <1>8, <1>9 DEF QuietOk
<1> QED BY <1>6, <1>7, <1>10 DEF ReadOk

LEMMA AttachStep ==
  ASSUME SessionsOk, NEW x, NEW y, Going(x, y), x.stage = "publish", NEW s \in x.todo,
         NEW u \in Reading, NEW z, Stepped(u, s, z),
         u.stage = x.stage, u.todo = x.todo, u.refused = x.refused, u.found = x.found,
         u.paths = x.paths, u.leases = x.leases, u.cursors = x.cursors, u.unknown = x.unknown,
         u.blocked = IF session[s].blocked THEN x.blocked \union {s} ELSE x.blocked
  PROVE  ReadOk(z, y)
<1>1. /\ x \in Reading /\ y \in Since /\ ~x.refused /\ Begun(x, y) /\ QuietOk(x, y)
      /\ \A k \in scene.sessions : CursorRead(x, k) => CountOk(x, y, k)
  BY GoingIs DEF Going
<1>2. /\ z \in Reading /\ z.refused = x.refused /\ z.paths = x.paths /\ z.leases = x.leases
      /\ z.found = x.found /\ z.unknown = x.unknown /\ z.cursors = x.cursors
      /\ z.blocked = u.blocked
  BY DEF Stepped
<1>3. s \in scene.sessions /\ x.todo \subseteq scene.sessions
  BY <1>1 DEF Begun
<1>4. /\ z.stage \in {"publish", "done"}
      /\ z.stage = "publish" => z.todo = x.todo \ {s}
      /\ z.stage = "done" => x.todo \ {s} = {}
  BY <1>3 DEF Stepped, Following
<1>5. \A k \in scene.sessions :
         /\ CountOk(x, y, k) /\ Key(z, k) = Key(x, k) /\ x.paths[k] # <<>>
         /\ ~Unverified(z, k) /\ ~Unverified(x, k)
         /\ Unattached(x, k) => Unattached(z, k) \/ k = s
  BY <1>1, <1>2, <1>4 DEF CursorRead, CountOk, Key, Unverified, Unattached
<1>6. Begun(z, y)
  BY <1>1, <1>2, <1>3, <1>4, <1>5 DEF Begun
<1>7. ASSUME NEW k \in scene.sessions PROVE CountOk(z, y, k)
  <2>1. Reach(z, k) = Reach(x, k)
    BY <1>2, <1>4 DEF Reach, Unscanned
  <2> QED BY <1>2, <1>4, <1>5, <2>1 DEF CountOk
<1>8. ASSUME NEW w \in Workstreams PROVE Watched(z, y, w)
  <2>1. Watched(x, y, w)
    BY <1>1 DEF QuietOk, Going
  <2>2. \A k \in scene.sessions : Calm(x, w, k) => Calm(z, w, k)
    BY <1>2 DEF Calm, LeaseRead, PathRead
  <2> QED BY <2>1, <2>2 DEF Watched
<1>9. ASSUME NEW w \in Workstreams PROVE Explained(z, y, w)
  <2>1. Explained(x, y, w)
    BY <1>1 DEF QuietOk
  <2>2. ASSUME NEW k \in scene.sessions, Witness(x, w, k) PROVE Witness(z, w, k)
    <3>0. Key(z, k).ws = w /\ x.stage # "scans"
      BY <1>5, <2>2 DEF Witness
    <3>1. CASE k \in x.unknown \/ x.found[k] # {} \/ k \in x.blocked
      BY <1>2, <3>0, <3>1 DEF Witness
    <3>2. CASE Unattached(x, k) /\ session[k].blocked /\ session[k].owed.ws = w
      BY <1>2, <1>5, <3>0, <3>2 DEF Witness
    <3> QED BY <1>5, <2>2, <3>0, <3>1, <3>2 DEF Witness
  <2> QED BY <1>2, <2>1, <2>2 DEF Explained
<1>10. QuietOk(z, y)
  BY <1>8, <1>9 DEF QuietOk
<1> QED BY <1>6, <1>7, <1>10 DEF ReadOk

-----------------------------------------------------------------------------
(* The readings, whatever happens *)

(* They speak of the sessions only. *)
LEMMA SameOk ==
  ASSUME UNCHANGED <<scene, session, clock>>, NEW x, NEW y
  PROVE  ReadOk(x, y)' <=> ReadOk(x, y)
<1>0. scene' = scene /\ session' = session /\ clock' = clock
  OBVIOUS
<1>1. Begun(x, y)' <=> Begun(x, y)
  BY <1>0 DEF Begun, Reading, Since, Table, CursorOf
<1>2. ASSUME NEW k, NEW m PROVE News(session, k, m)' = News(session, k, m)
  BY <1>0 DEF News, Others
<1>3. ASSUME NEW k PROVE Reach(x, k)' = Reach(x, k)
  BY <1>0 DEF Reach, Of, Others
<1>4. ASSUME NEW k PROVE CountOk(x, y, k)' <=> CountOk(x, y, k)
  <2>1. Behind(x.cursors[k], session[k].cursor)' <=> Behind(x.cursors[k], session[k].cursor)
    BY <1>0 DEF Behind
  <2>2. News(session, k, Key(x, k))' = News(session, k, Key(x, k))
    BY <1>2
  <2> QED BY <1>0, <1>3, <2>1, <2>2 DEF CountOk
<1>5. ASSUME NEW w PROVE Quiet(session, w)' <=> Quiet(session, w)
  BY <1>0 DEF Quiet, News, Others
<1>6. ASSUME NEW w PROVE Watched(x, y, w)' <=> Watched(x, y, w)
  BY <1>0, <1>5 DEF Watched, Calm
<1>7. ASSUME NEW w, NEW k PROVE Witness(x, w, k)' <=> Witness(x, w, k)
  BY <1>0 DEF Witness, Of
<1>8. ASSUME NEW w PROVE Explained(x, y, w)' <=> Explained(x, y, w)
  BY <1>0, <1>7 DEF Explained
<1>9. QuietOk(x, y)' <=> QuietOk(x, y)
  BY <1>6, <1>8 DEF QuietOk
<1> QED BY <1>0, <1>1, <1>4, <1>9 DEF ReadOk

LEMMA SameSessions ==
  ASSUME SessionsOk, UNCHANGED <<scene, session, clock>>
  PROVE  SessionsOk'
<1>1. scene' = scene /\ session' = session /\ clock' = clock
  OBVIOUS
<1>2. SessionOf' = SessionOf
  BY <1>1 DEF SessionOf, CursorOf
<1> QED BY <1>1, <1>2 DEF SessionsOk

(* The reading of r goes on to z, what was so since it began to v. *)
LEMMA OneReads ==
  ASSUME ReadsOk, UNCHANGED <<scene, session, clock>>, NEW r \in Readers, NEW z, NEW v,
         reads' = [reads EXCEPT ![r] = z], since' = [since EXCEPT ![r] = v], ReadOk(z, v)
  PROVE  ReadsOk'
<1>1. DOMAIN reads = Readers /\ DOMAIN since = Readers
  BY DEF ReadsOk
<1>2. /\ reads' = [q \in Readers |-> reads'[q]] /\ since' = [q \in Readers |-> since'[q]]
  BY <1>1
<1>3. ASSUME NEW q \in Readers PROVE ReadOk(reads[q], since[q])'
  <2>1. PICK x, y : x = reads'[q] /\ y = since'[q]
    OBVIOUS
  <2>2. ReadOk(x, y)
    <3>1. CASE q = r
      BY <1>1, <2>1, <3>1
    <3>2. CASE q # r
      BY <1>1, <2>1, <3>2 DEF ReadsOk
    <3> QED BY <3>1, <3>2
  <2>3. ReadOk(x, y)'
    BY <2>2, SameOk
  <2> QED BY <2>1, <2>3 DEF ReadOk
<1> QED BY <1>2, <1>3 DEF ReadsOk

LEMMA ReadFields ==
  ASSUME SessionsOk, ReadsOk, NEW r \in Readers, NEW stage, NEW s, NEW u,
         ReadStep(r, stage, s, u), stage \in StageNames \ {"done"}
  PROVE  /\ Going(reads[r], since[r]) /\ reads[r].stage = stage /\ s \in reads[r].todo
         /\ UNCHANGED <<scene, session, clock>> /\ reads' = [reads EXCEPT ![r] = Advance(u, s)]
         /\ stage # "records" => s \in scene.sessions
<1>1. /\ reads[r].stage = stage /\ s \in reads[r].todo /\ ReadOk(reads[r], since[r])
      /\ UNCHANGED <<scene, session, clock>> /\ reads' = [reads EXCEPT ![r] = Advance(u, s)]
  BY DEF ReadStep, IsNext, ReadsOk
<1>2. reads[r] # NoReading
  BY <1>1 DEF NoReading, StageNames
<1>3. Begun(reads[r], since[r])
  BY <1>1, <1>2 DEF ReadOk
<1> QED BY <1>1, <1>3 DEF Going, Begun

LEMMA NothingNoted ==
  ASSUME ReadsOk, NEW r \in Readers, UNCHANGED since
  PROVE  since' = [since EXCEPT ![r] = since[r]]
BY DEF ReadsOk

LEMMA EarlyReads ==
  ASSUME SessionsOk, ReadsOk, NEW r \in Readers, UNCHANGED since,
         record \in Table,
         \/ ReadWorkstreamFacts(r)
         \/ \E s \in scene.sessions :
               ReadParticipationFacts(r, s) \/ ScanFeed(r, s) \/ ListActive(r, s)
  PROVE  ReadsOk'
<1> PICK x : x = reads[r]
  OBVIOUS
<1> PICK y : y = since[r]
  OBVIOUS
<1> DEFINE Goes(u, s) ==
             /\ u.stage = x.stage /\ u.todo = x.todo /\ u.found = x.found
             /\ u.refused = x.refused
             /\ u.paths = IF x.stage = "participation"
                          THEN [x.paths EXCEPT ![s] = session[s].path] ELSE x.paths
             /\ u.leases = IF x.stage = "active"
                           THEN [x.leases EXCEPT ![s] = session[s].lease] ELSE x.leases
<1>1. ASSUME NEW stage \in {"records", "participation", "feeds", "active"}, NEW s,
             NEW u, ReadStep(r, stage, s, u), u \in Reading, Goes(u, s)
      PROVE  ReadsOk'
  <2>1. /\ Going(x, y) /\ x.stage = stage /\ s \in x.todo
        /\ UNCHANGED <<scene, session, clock>> /\ reads' = [reads EXCEPT ![r] = Advance(u, s)]
    BY <1>1, ReadFields DEF StageNames
  <2>2. Stepped(u, s, Advance(u, s))
    BY <1>1, <2>1, AdvanceIs
  <2>3. ReadOk(Advance(u, s), y)
    BY <1>1, <2>1, <2>2, EarlyStep
  <2> QED BY <2>1, <2>3, OneReads, NothingNoted
<1>2. CASE ReadWorkstreamFacts(r)
  <2> DEFINE u == [x EXCEPT !.records = record]
  <2>1. ReadStep(r, "records", 0, u)
    BY <1>2 DEF ReadWorkstreamFacts
  <2>2. x \in Reading /\ x.stage = "records"
    BY <2>1, ReadFields DEF StageNames, Going
  <2>3. u \in Reading /\ Goes(u, 0)
    BY <2>2 DEF Reading
  <2> HIDE DEF u, Goes
  <2> QED BY <1>1, <2>1, <2>3
<1>3. ASSUME NEW s \in scene.sessions, ReadParticipationFacts(r, s) PROVE ReadsOk'
  <2> DEFINE u == [x EXCEPT !.paths[s] = session[s].path]
  <2>1. ReadStep(r, "participation", s, u)
    BY <1>3 DEF ReadParticipationFacts
  <2>2. x \in Reading /\ x.stage = "participation"
    BY <2>1, ReadFields DEF StageNames, Going
  <2>3. PICK p \in [scene.sessions -> Seq(Member)] : p = x.paths
    BY <2>2 DEF Reading
  <2>4. PICK q \in [scene.sessions -> Seq(Member)] : q = [p EXCEPT ![s] = session[s].path]
    BY SessionIs
  <2>5. u = [x EXCEPT !.paths = q]
    BY <2>3, <2>4
  <2> HIDE DEF u
  <2>6. u \in Reading /\ Goes(u, s)
    BY <2>2, <2>3, <2>4, <2>5 DEF Reading
  <2> HIDE DEF Goes
  <2> QED BY <1>1, <2>1, <2>6
<1>4. ASSUME NEW s \in scene.sessions, ScanFeed(r, s) PROVE ReadsOk'
  <2> DEFINE u == [x EXCEPT !.feeds[s] = session[s].feed, !.torn[s] = session[s].torn]
  <2>1. ReadStep(r, "feeds", s, u)
    BY <1>4 DEF ScanFeed
  <2>2. x \in Reading /\ x.stage = "feeds"
    BY <2>1, ReadFields DEF StageNames, Going
  <2>3. PICK p \in [scene.sessions -> Seq(Owed)], t \in [scene.sessions -> BOOLEAN] :
          p = x.feeds /\ t = x.torn
    BY <2>2 DEF Reading
  <2>4. session[s].feed \in Seq(Owed) /\ session[s].torn \in BOOLEAN
    BY SessionIs DEF SessionOf
  <2>5. PICK q \in [scene.sessions -> Seq(Owed)] : q = [p EXCEPT ![s] = session[s].feed]
    BY <2>4
  <2>6. PICK v \in [scene.sessions -> BOOLEAN] : v = [t EXCEPT ![s] = session[s].torn]
    BY <2>4
  <2>7. u = [x EXCEPT !.feeds = q, !.torn = v]
    BY <2>2, <2>3, <2>5, <2>6 DEF Reading
  <2> HIDE DEF u
  <2>8. u \in Reading /\ Goes(u, s)
    BY <2>2, <2>7 DEF Reading
  <2> HIDE DEF Goes
  <2> QED BY <1>1, <2>1, <2>8
<1>5. ASSUME NEW s \in scene.sessions, ListActive(r, s) PROVE ReadsOk'
  <2> DEFINE u == [x EXCEPT !.leases[s] = session[s].lease]
  <2>1. ReadStep(r, "active", s, u)
    BY <1>5 DEF ListActive
  <2>2. x \in Reading /\ x.stage = "active"
    BY <2>1, ReadFields DEF StageNames, Going
  <2>3. PICK p \in [scene.sessions -> Workstreams \union {None}] : p = x.leases
    BY <2>2 DEF Reading
  <2>4. PICK q \in [scene.sessions -> Workstreams \union {None}] :
          q = [p EXCEPT ![s] = session[s].lease]
    BY SessionIs
  <2>5. u = [x EXCEPT !.leases = q]
    BY <2>3, <2>4
  <2> HIDE DEF u
  <2>6. u \in Reading /\ Goes(u, s)
    BY <2>2, <2>3, <2>4, <2>5 DEF Reading
  <2> HIDE DEF Goes
  <2> QED BY <1>1, <2>1, <2>6
<1> QED BY <1>2, <1>3, <1>4, <1>5

LEMMA CursorReads ==
  ASSUME SessionsOk, ReadsOk, NEW r \in Readers, NEW s \in scene.sessions, ReadCursor(r, s)
  PROVE  ReadsOk'
<1> PICK x : x = reads[r]
  OBVIOUS
<1> PICK y : y = since[r]
  OBVIOUS
<1> DEFINE c == session[s].cursor
           u == [x EXCEPT !.cursors[s] = c,
                          !.unknown = IF Matches(c, Key(x, s)) THEN @ ELSE @ \union {s}]
           v == [y EXCEPT !.counts[s] = {Cardinality(News(session, s, Key(x, s)))}]
<1>1. /\ ReadStep(r, "cursors", s, u)
      /\ since' = [since EXCEPT ![r].counts[s] = {Cardinality(News(session, s, Key(x, s)))}]
  BY DEF ReadCursor
<1>2. since' = [since EXCEPT ![r] = v]
  BY <1>1
<1>3. /\ Going(x, y) /\ x.stage = "cursors" /\ s \in x.todo
      /\ UNCHANGED <<scene, session, clock>> /\ reads' = [reads EXCEPT ![r] = Advance(u, s)]
  BY <1>1, ReadFields DEF StageNames
<1>4. x \in Reading /\ c \in CursorOf \union {None}
  BY <1>3, SessionIs DEF Going
<1>5. PICK p \in [scene.sessions -> CursorOf \union {None}], n \in SUBSET scene.sessions :
        p = x.cursors /\ n = x.unknown
  BY <1>4 DEF Reading
<1>6. PICK q \in [scene.sessions -> CursorOf \union {None}] : q = [p EXCEPT ![s] = c]
  BY <1>4
<1>7. PICK m \in SUBSET scene.sessions : m = IF Matches(c, Key(x, s)) THEN n ELSE n \union {s}
  OBVIOUS
<1>8. u = [x EXCEPT !.cursors = q, !.unknown = m]
  BY <1>4, <1>5, <1>6, <1>7 DEF Reading
<1> HIDE DEF u
<1>9. /\ u \in Reading /\ u.stage = x.stage /\ u.todo = x.todo /\ u.found = x.found
      /\ u.refused = x.refused /\ u.paths = x.paths /\ u.leases = x.leases
      /\ u.cursors = q /\ u.unknown = m
  BY <1>4, <1>8 DEF Reading
<1>10. Stepped(u, s, Advance(u, s))
  BY <1>3, <1>9, AdvanceIs
<1> HIDE DEF v
<1>11. v = [y EXCEPT !.counts[s] = {Cardinality(News(session, s, Key(x, s)))}]
  BY DEF v
<1>12. ReadOk(Advance(u, s), v)
  BY <1>3, <1>5, <1>6, <1>7, <1>9, <1>10, <1>11, CursorStep
<1> QED BY <1>2, <1>3, <1>12, OneReads

LEMMA ScanReads ==
  ASSUME SessionsOk, ReadsOk, NEW r \in Readers, NEW f \in scene.sessions, ScanPinnedFeed(r, f)
  PROVE  ReadsOk'
<1> PICK x : x = reads[r]
  OBVIOUS
<1> PICK y : y = since[r]
  OBVIOUS
<1> PICK needs : needs = Others(f) \ x.unknown
  OBVIOUS
<1> DEFINE g == [k \in scene.sessions |-> IF k \in needs THEN x.found[k] \union Of(x, k, f)
                                                         ELSE x.found[k]]
           n == IF session[f].torn THEN x.unknown \union needs ELSE x.unknown
           u == [x EXCEPT !.found = g, !.unknown = n]
<1>1. ReadStep(r, "scans", f, u) /\ UNCHANGED since
  BY DEF ScanPinnedFeed, Of
<1>2. /\ Going(x, y) /\ x.stage = "scans" /\ f \in x.todo
      /\ UNCHANGED <<scene, session, clock>> /\ reads' = [reads EXCEPT ![r] = Advance(u, f)]
  BY <1>1, ReadFields DEF StageNames
<1>3. x \in Reading /\ needs \subseteq scene.sessions /\ Begun(x, y)
  BY <1>2, GoingIs DEF Going, Others
<1>4. ASSUME NEW k \in scene.sessions PROVE Of(x, k, f) \subseteq scene.sessions \X Nat
  <2>1. x.paths[k] # <<>>
    BY <1>2, GoingIs DEF Begun, PathRead
  <2>2. Of(x, k, f) \subseteq Everything
    BY <1>3, <2>1, OfIs
  <2>3. clock \in Nat
    BY DEF SessionsOk
  <2>4. 1..clock \subseteq Nat
    BY <2>3
  <2> QED BY <2>2, <2>4 DEF Everything
<1>5. g \in [scene.sessions -> SUBSET (scene.sessions \X Nat)]
  BY <1>3, <1>4 DEF Reading
<1>6. n \in SUBSET scene.sessions
  BY <1>3 DEF Reading
<1> HIDE DEF g, n
<1>7. /\ u \in Reading /\ u.stage = x.stage /\ u.todo = x.todo /\ u.found = g
      /\ u.refused = x.refused /\ u.paths = x.paths /\ u.leases = x.leases
      /\ u.cursors = x.cursors /\ u.unknown = n /\ u.blocked = x.blocked
  BY <1>3, <1>5, <1>6 DEF Reading
<1> HIDE DEF u
<1>8. Stepped(u, f, Advance(u, f))
  BY <1>2, <1>7, AdvanceIs
<1>9. ReadOk(Advance(u, f), y)
  BY <1>2, <1>7, <1>8, ScanStep DEF g, n
<1> QED BY <1>1, <1>2, <1>9, OneReads, NothingNoted

LEMMA LateReads ==
  ASSUME SessionsOk, ReadsOk, NEW r \in Readers, NEW s \in scene.sessions,
         Revalidate(r, s) \/ AttachPublish(r, s)
  PROVE  ReadsOk'
<1> PICK x : x = reads[r]
  OBVIOUS
<1> PICK y : y = since[r]
  OBVIOUS
<1>1. CASE Revalidate(r, s)
  <2> DEFINE n == IF session[s].cursor = x.cursors[s] THEN x.unknown ELSE x.unknown \union {s}
             u == [x EXCEPT !.unknown = n]
  <2>1. ReadStep(r, "revalidate", s, u) /\ UNCHANGED since
    BY <1>1 DEF Revalidate
  <2>2. /\ Going(x, y) /\ x.stage = "revalidate" /\ s \in x.todo
        /\ UNCHANGED <<scene, session, clock>> /\ reads' = [reads EXCEPT ![r] = Advance(u, s)]
    BY <2>1, ReadFields DEF StageNames
  <2>3. n \in SUBSET scene.sessions /\ x \in Reading
    BY <2>2 DEF Reading, Going
  <2> HIDE DEF n
  <2>4. /\ u \in Reading /\ u.stage = x.stage /\ u.todo = x.todo /\ u.found = x.found
        /\ u.refused = x.refused /\ u.paths = x.paths /\ u.leases = x.leases
        /\ u.cursors = x.cursors /\ u.unknown = n /\ u.blocked = x.blocked
    BY <2>3 DEF Reading
  <2> HIDE DEF u
  <2>5. Stepped(u, s, Advance(u, s))
    BY <2>2, <2>4, AdvanceIs
  <2>6. ReadOk(Advance(u, s), y)
    BY <2>2, <2>4, <2>5, RevalidateStep DEF n
  <2> QED BY <2>1, <2>2, <2>6, OneReads, NothingNoted
<1>2. CASE AttachPublish(r, s)
  <2> DEFINE n == IF session[s].blocked THEN x.blocked \union {s} ELSE x.blocked
             u == [x EXCEPT !.blocked = n]
  <2>1. ReadStep(r, "publish", s, u) /\ UNCHANGED since
    BY <1>2 DEF AttachPublish
  <2>2. /\ Going(x, y) /\ x.stage = "publish" /\ s \in x.todo
        /\ UNCHANGED <<scene, session, clock>> /\ reads' = [reads EXCEPT ![r] = Advance(u, s)]
    BY <2>1, ReadFields DEF StageNames
  <2>3. n \in SUBSET scene.sessions /\ x \in Reading
    BY <2>2 DEF Reading, Going
  <2> HIDE DEF n
  <2>4. /\ u \in Reading /\ u.stage = x.stage /\ u.todo = x.todo /\ u.found = x.found
        /\ u.refused = x.refused /\ u.paths = x.paths /\ u.leases = x.leases
        /\ u.cursors = x.cursors /\ u.unknown = x.unknown /\ u.blocked = n
    BY <2>3 DEF Reading
  <2> HIDE DEF u
  <2>5. Stepped(u, s, Advance(u, s))
    BY <2>2, <2>4, AdvanceIs
  <2>6. ReadOk(Advance(u, s), y)
    BY <2>2, <2>4, <2>5, AttachStep DEF n
  <2> QED BY <2>1, <2>2, <2>6, OneReads, NothingNoted
<1> QED BY <1>1, <1>2

LEMMA Refused ==
  ASSUME SessionsOk, ReadsOk, NEW r \in Readers, Refuse(r)
  PROVE  ReadsOk'
<1> PICK x : x = reads[r]
  OBVIOUS
<1> PICK y : y = since[r]
  OBVIOUS
<1> DEFINE z == [x EXCEPT !.stage = "done", !.refused = TRUE]
<1>1. /\ x.stage \in {"records", "participation", "feeds", "active"} /\ UNCHANGED since
      /\ UNCHANGED <<scene, session, clock>> /\ ReadOk(x, y)
      /\ reads' = [reads EXCEPT ![r].stage = "done", ![r].refused = TRUE]
      /\ DOMAIN reads = Readers
  BY DEF Refuse, ReadsOk
<1>2. x # NoReading
  BY <1>1 DEF NoReading
<1>3. Begun(x, y) /\ x \in Reading
  BY <1>1, <1>2 DEF ReadOk, Begun
<1>4. reads' = [reads EXCEPT ![r] = z]
  BY <1>1
<1>5. /\ z \in Reading /\ z.stage = "done" /\ z.refused /\ z.paths = x.paths
      /\ z.found = x.found /\ z # NoReading
  BY <1>3 DEF Reading, StageNames, NoReading
<1> HIDE DEF z
<1>6. ReadOk(z, y)
  BY <1>3, <1>5 DEF ReadOk, Begun
<1> QED BY <1>1, <1>4, <1>6, OneReads, NothingNoted

LEMMA Begins ==
  ASSUME record \in Table, SessionsOk, ReadsOk, NEW r \in Readers, Begin(r),
         UNCHANGED <<scene, session, clock>>
  PROVE  ReadsOk'
<1> DEFINE x == NewReading
           c == [s \in scene.sessions |-> {}]
           y == [quiet |-> {w \in Workstreams : Quiet(session, w)}, stirred |-> {},
                 counts |-> c]
<1>1. reads' = [reads EXCEPT ![r] = x] /\ since' = [since EXCEPT ![r] = y]
  BY DEF Begin
<1>2. c \in [scene.sessions -> SUBSET Nat] /\ \A s \in scene.sessions : c[s] = {}
  OBVIOUS
<1>3. {w \in Workstreams : Quiet(session, w)} \subseteq Workstreams
  OBVIOUS
<1>4. y \in Since /\ y.counts = c /\ \A w \in Workstreams : Quiet(session, w) => w \in y.quiet
  BY <1>2, <1>3 DEF Since
<1> HIDE DEF c, y
<1>5. /\ [s \in scene.sessions |-> <<>>] \in [scene.sessions -> Seq(Member)]
      /\ [s \in scene.sessions |-> <<>>] \in [scene.sessions -> Seq(Owed)]
  <2>1. <<>> \in Seq(Member) /\ <<>> \in Seq(Owed)
    OBVIOUS
  <2> QED BY <2>1, Zenon
<1>6. /\ x \in Reading /\ x.stage = "records" /\ x.todo = {0} /\ ~x.refused
      /\ \A s \in scene.sessions : x.found[s] = {}
  <2>1. PICK p \in [scene.sessions -> Seq(Member)] : p = [s \in scene.sessions |-> <<>>]
    BY <1>5
  <2>2. PICK f \in [scene.sessions -> Seq(Owed)] : f = [s \in scene.sessions |-> <<>>]
    BY <1>5
  <2>3. x = [stage |-> "records", todo |-> {0}, refused |-> FALSE, records |-> record,
             paths |-> p, feeds |-> f, torn |-> [s \in scene.sessions |-> FALSE],
             leases |-> [s \in scene.sessions |-> None],
             cursors |-> [s \in scene.sessions |-> None],
             found |-> [s \in scene.sessions |-> {}], unknown |-> {}, blocked |-> {}]
    BY <2>1, <2>2 DEF NewReading
  <2> QED BY <2>3 DEF Reading, StageNames
<1> HIDE DEF x
<1>7. \A s \in scene.sessions : IsFiniteSet(x.found[s])
  BY <1>6, FS_EmptySet
<1>8. Begun(x, y)
  BY <1>2, <1>4, <1>6, <1>7 DEF Begun, PathRead
<1>9. \A w \in Workstreams : Watched(x, y, w)
  BY <1>4, <1>6 DEF Watched, Calm, PathRead, LeaseRead
<1>10. QuietOk(x, y)
  BY <1>6, <1>9 DEF QuietOk
<1>11. ReadOk(x, y)
  BY <1>6, <1>8, <1>10 DEF ReadOk, CursorRead
<1> QED BY <1>1, <1>11, OneReads

LEMMA Forgets ==
  ASSUME ReadsOk, NEW r \in Readers, Forget(r), UNCHANGED <<scene, session, clock>>
  PROVE  ReadsOk'
<1>1. ReadOk(NoReading, NothingSince)
  BY DEF ReadOk
<1> QED BY <1>1, OneReads DEF Forget

LEMMA SessionReads ==
  ASSUME SessionsOk, ReadsOk, NEW s \in scene.sessions, NEW b, Happens(s, b)
  PROVE  ReadsOk'
<1>1. \A r \in Readers : ReadOk(reads[r], since[r])'
  BY SessionReadOk
<1>2. reads' = reads /\ Note
  BY DEF Happens
<1>3. reads' = [r \in Readers |-> reads'[r]]
  BY <1>2 DEF ReadsOk
<1>4. DOMAIN since' = Readers /\ since' = [r \in Readers |-> since'[r]]
  BY <1>2 DEF Note
<1> QED BY <1>1, <1>3, <1>4 DEF ReadsOk

LEMMA SameReads ==
  ASSUME ReadsOk, UNCHANGED <<scene, session, clock, reads, since>>
  PROVE  ReadsOk'
<1>1. "refresh" \in Readers
  BY DEF Readers
<1>2. /\ reads' = [reads EXCEPT !["refresh"] = reads["refresh"]]
      /\ since' = [since EXCEPT !["refresh"] = since["refresh"]]
  BY <1>1 DEF ReadsOk
<1>3. ReadOk(reads["refresh"], since["refresh"])
  BY <1>1 DEF ReadsOk
<1> QED BY <1>1, <1>2, <1>3, OneReads

LEMMA ReadNextReads ==
  ASSUME record \in Table, SessionsOk, ReadsOk, NEW r \in Readers, ReadNext(r)
  PROVE  ReadsOk'
<1>1. CASE /\ UNCHANGED since
           /\ \/ ReadWorkstreamFacts(r)
              \/ \E s \in scene.sessions :
                    ReadParticipationFacts(r, s) \/ ScanFeed(r, s) \/ ListActive(r, s)
  BY <1>1, EarlyReads
<1>2. CASE \E s \in scene.sessions : ReadCursor(r, s)
  BY <1>2, CursorReads
<1>3. CASE \E s \in scene.sessions : ScanPinnedFeed(r, s)
  BY <1>3, ScanReads
<1>4. CASE \E s \in scene.sessions : Revalidate(r, s) \/ AttachPublish(r, s)
  BY <1>4, LateReads
<1> QED BY <1>1, <1>2, <1>3, <1>4
     DEF ReadNext, ReadWorkstreamFacts, ReadParticipationFacts, ScanFeed, ListActive

LEMMA CountsTrue ==
  ASSUME SessionsOk, ReadsOk
  PROVE  ReadyCountTrue
<1> SUFFICES ASSUME NEW r \in Readers, Done(r), NEW k \in scene.sessions \ reads[r].unknown
             PROVE  \E lo, hi \in since[r].counts[k] :
                       Cardinality(reads[r].found[k]) \in lo..hi
  BY DEF ReadyCountTrue
<1> PICK x : x = reads[r]
  OBVIOUS
<1> PICK y : y = since[r]
  OBVIOUS
<1>1. ReadOk(x, y) /\ x.stage = "done" /\ ~x.refused /\ k \in scene.sessions /\ k \notin x.unknown
  BY DEF ReadsOk, Done
<1>2. x # NoReading
  BY <1>1 DEF NoReading
<1>3. Begun(x, y) /\ CountOk(x, y, k)
  BY <1>1, <1>2 DEF ReadOk, CursorRead
<1>4. Reach(x, k) = x.found[k]
  BY <1>1 DEF Reach, Unscanned
<1>5. Cardinality(x.found[k]) \in Nat /\ y.counts[k] \subseteq Nat
  BY <1>1, <1>3, FS_CardinalityType DEF Begun, Since
<1>6. PICK lo \in y.counts[k], hi \in y.counts[k] :
        lo <= Cardinality(x.found[k]) /\ Cardinality(x.found[k]) <= hi
  BY <1>1, <1>3, <1>4 DEF CountOk, Unverified
<1>7. Cardinality(x.found[k]) \in lo..hi
  BY <1>5, <1>6
<1> QED BY <1>7

LEMMA QuietTrue ==
  ASSUME ReadsOk
  PROVE  QuietUnlessStirred
<1> SUFFICES ASSUME NEW r \in Readers, Done(r), NEW w \in Workstreams, QuietProven(reads[r], w)
             PROVE  w \in since[r].quiet \union since[r].stirred
  BY DEF QuietUnlessStirred
<1> PICK x : x = reads[r]
  OBVIOUS
<1> PICK y : y = since[r]
  OBVIOUS
<1>1. ReadOk(x, y) /\ x.stage = "done" /\ ~x.refused
  BY DEF ReadsOk, Done
<1>2. x # NoReading
  BY <1>1 DEF NoReading
<1>3. Explained(x, y, w)
  BY <1>1, <1>2 DEF ReadOk, QuietOk
<1>4. \A s \in scene.sessions : x.leases[s] # w
  BY DEF QuietProven, Working
<1>5. ASSUME NEW s \in scene.sessions PROVE ~Witness(x, w, s)
  <2>1. ~Attention(x, w)
    BY DEF QuietProven
  <2> QED BY <1>1, <2>1 DEF Witness, Attention, MembersOf, Unverified, Unattached
<1> QED BY <1>3, <1>4, <1>5 DEF Explained

LEMMA CatalogueBegins ==
  ASSUME CatalogueInit
  PROVE  record \in Table /\ SessionsOk /\ ReadsOk
<1>1. /\ scene \in Scenes /\ clock = 1 /\ session = [s \in scene.sessions |-> NewSession(scene, s)]
      /\ record = [w \in Workstreams |->
                     IF w \in scene.exists THEN [status |-> "open", rev |-> 1] ELSE None]
      /\ reads = [r \in Readers |-> NoReading] /\ since = [r \in Readers |-> NothingSince]
  BY DEF CatalogueInit
<1>2. record \in Table
  BY <1>1 DEF Table, Row
<1>3. ASSUME NEW s \in scene.sessions
      PROVE  session[s] \in SessionOf /\ Placed(session[s], clock)
  <2> DEFINE m == [ws |-> 1, from |-> 0]
             t == [ws |-> 1, at |-> 1]
  <2>1. m \in Member /\ t \in Owed /\ m.ws = 1 /\ m.from = 0 /\ 1 \in Workstreams
    BY CatalogueAssumption DEF Member, Owed
  <2> HIDE DEF m, t
  <2>2. PICK p \in Seq(Member) : p = <<m>> /\ p # <<>> /\ Current(p) = m
    <3>1. <<m>> \in Seq(Member) /\ <<m>> # <<>>
      BY <2>1
    <3>2. Len(<<m>>) = 1 /\ <<m>>[1] = m
      OBVIOUS
    <3>3. Current(<<m>>) = m
      BY <3>2, Zenon DEF Current
    <3> QED BY <3>1, <3>3, Zenon
  <2>3. <<t>> \in Seq(Owed) /\ <<>> \in Seq(Owed) /\ Len(<<t>>) = 1
        /\ \A e \in Seq(Owed) : e = <<>> => Len(e) = 0
    BY <2>1
  <2>4. PICK f \in Seq(Owed) : f = IF s \in scene.spoken THEN <<t>> ELSE <<>>
    BY <2>3, Zenon
  <2>5. Len(f) = 0 \/ Len(f) = 1
    BY <2>3, <2>4, Zenon
  <2>6. PICK z : z = IF s \in scene.working THEN 1 ELSE None
    OBVIOUS
  <2>7. session[s] = [path |-> p, lease |-> z, ended |-> FALSE, owed |-> None, feed |-> f,
                      torn |-> FALSE, cursor |-> None, blocked |-> FALSE]
    BY <1>1, <2>2, <2>4, <2>6, Zenon DEF NewSession, m, t
  <2>8. session[s] \in SessionOf
    BY <2>1, <2>6, <2>7 DEF SessionOf
  <2>9. Placed(session[s], clock)
    <3>1. /\ session[s].path = p /\ session[s].lease = z /\ session[s].owed = None
          /\ session[s].feed = f /\ session[s].cursor = None /\ ~session[s].blocked
      BY <2>7
    <3>0. Current(p) = m
      BY <2>2, Zenon
    <3>2. Current(p).from <= 1 /\ Current(p).ws = 1 /\ Len(f) <= 1
      <4>1. m.from <= 1 /\ m.ws = 1
        BY <2>1
      <4>2. 0 <= 1 /\ 1 <= 1
        OBVIOUS
      <4>3. Len(f) <= 1
        BY <2>5, <4>2, Zenon
      <4> QED BY <3>0, <4>1, <4>3, Zenon
    <3>3. session[s].path # <<>> /\ Current(session[s].path).from <= clock
      BY <1>1, <2>2, <3>1, <3>2, Zenon
    <3>4. Len(session[s].feed) <= clock
      BY <1>1, <3>1, <3>2, Zenon
    <3>5. session[s].lease # None => session[s].lease = Current(session[s].path).ws
      BY <2>6, <3>1, <3>2, Zenon
    <3> QED BY <3>1, <3>3, <3>4, <3>5, Zenon DEF Placed
  <2> QED BY <2>8, <2>9
<1>4. SessionsOk
  BY <1>1, <1>3 DEF SessionsOk
<1>5. ReadsOk
  BY <1>1 DEF ReadsOk, ReadOk
<1> QED BY <1>2, <1>4, <1>5

-----------------------------------------------------------------------------
(* The screen *)

Statuses == {"open", "completed"}
Modes == Workstreams \union {Home}

UIOf == [mode : Modes, filter : Statuses, help : BOOLEAN, paused : BOOLEAN, tier : Tiers]

ScreenOf == [refused : BOOLEAN, records : Table, working : SUBSET Workstreams]

RefreshOf ==
    [stage : {"idle", "health", "catalogue", "context"}, at : Nat, mode : Modes, gen : Nat,
     lock : BOOLEAN, queued : BOOLEAN, overtaken : BOOLEAN]

StartupOf == [on : BOOLEAN, settled : BOOLEAN, stride : BOOLEAN]

DialogOf ==
    [state : Results \union {"confirm", "pending"}, ws : Workstreams, status : Statuses,
     rev : Nat, cancelled : BOOLEAN, warns : BOOLEAN, mode : Modes, filter : Statuses]

FilmOf == [phase : {"writer", "reconcile", "finishing"}, ticks : 0..PassTicks, id : Nat]

WriterOf ==
    [kind : {"status", "create"}, running : BOOLEAN, held : BOOLEAN, cancelled : BOOLEAN,
     did : BOOLEAN, changed : BOOLEAN, code : {"ok", "error", "none"}, warns : BOOLEAN]

Scenery == {"none", "film", "decision", "dashboard"}

TypesOk ==
    /\ ui \in UIOf /\ shown \in ScreenOf \union {None}
    /\ rd \in RefreshOf /\ rd.at <= rd.gen
    /\ startup \in StartupOf
    /\ dialog \in DialogOf \union {NoDialog}
    /\ film \in FilmOf \union {None}
    /\ creation \in Made \union {"none", "form", "pending"}
    /\ writer \in WriterOf \union {NoWriter}
    /\ motion \in Scenery

Looking(r) == reads[r] # NoReading

(* One writer, for what is on the screen; a refresh beside it does not count. *)
ControlOk ==
    /\ dialog.state # "none" => creation = "none"
    /\ writer.kind = "status" <=> dialog.state \in Results \union {"pending"}
    /\ writer.kind = "create" <=> creation \in Made \union {"pending"}
    /\ creation # "none" => ui.mode = Home
    /\ film # None => dialog.state \in {"pending", "confirmed"}
    /\ film # None => (film.phase = "finishing" <=> dialog.state = "confirmed")
    /\ film # None /\ dialog.state = "confirmed" => dialog.warns = writer.warns
    /\ writer.kind # "none" /\ writer.running => ~Looking("lookup")
    /\ (writer.kind # "none" /\ writer.running) \/ Looking("lookup")
          => dialog.state = "pending" \/ creation = "pending"
    /\ rd.lock <=> dialog.state = "pending"
    /\ rd.lock /\ rd.stage # "idle" => rd.at < rd.gen
    /\ rd.stage \in {"catalogue", "context"} <=> Looking("refresh")

UIOk == scene \in Scenes /\ TypesOk /\ ControlOk

LEMMA SceneUI ==
  ASSUME scene \in Scenes
  PROVE  /\ scene.named \in Workstreams /\ scene.opens \in Modes /\ scene.tiers \subseteq Tiers
         /\ scene.motion \in BOOLEAN /\ scene.keys \subseteq Keys
         /\ Home \notin Workstreams /\ PassTicks \in Nat \ {0} /\ None \notin FilmOf
BY DashboardAssumption DEF DashboardScene, Modes, FilmOf

LEMMA WantedIs == WantedMotionScene \in Scenery
BY DEF WantedMotionScene, Scenery

LEMMA Synced ==
  ASSUME SyncMotionTimer
  PROVE  motion' \in Scenery /\ motion' = WantedMotionScene'
<1>1. (WantedMotionScene \in Scenery)'
  BY WantedIs, PTL
<1>2. Scenery' = Scenery
  BY DEF Scenery
<1> QED BY <1>1, <1>2 DEF SyncMotionTimer

LEMMA AskedIs ==
  ASSUME NEW d \in RefreshOf, d.at <= d.gen, NEW mode \in Modes
  PROVE  LET e == Asked(d, mode) IN
         /\ e \in RefreshOf /\ e.at <= e.gen /\ e.gen = d.gen /\ e.lock = d.lock
         /\ \/ (d.lock \/ d.stage # "idle") /\ e.queued /\ e.stage = d.stage /\ e.at = d.at
               /\ e.overtaken = d.overtaken
            \/ ~d.lock /\ d.stage = "idle" /\ e.stage = "health" /\ e.at = e.gen
               /\ e.queued = d.queued
<1>1. CASE d.lock \/ d.stage # "idle"
  <2> DEFINE e == [d EXCEPT !.queued = TRUE]
  <2>1. Asked(d, mode) = e
    BY <1>1 DEF Asked
  <2>2. /\ e \in RefreshOf /\ e.at = d.at /\ e.gen = d.gen /\ e.lock = d.lock /\ e.queued
        /\ e.stage = d.stage /\ e.overtaken = d.overtaken
    BY DEF RefreshOf
  <2> HIDE DEF e
  <2> QED BY <1>1, <2>1, <2>2
<1>2. CASE ~(d.lock \/ d.stage # "idle")
  <2> DEFINE e == [d EXCEPT !.stage = "health", !.at = d.gen, !.mode = mode, !.overtaken = FALSE]
  <2>1. Asked(d, mode) = e
    BY <1>2 DEF Asked
  <2>2. /\ e \in RefreshOf /\ e.at = d.gen /\ e.gen = d.gen /\ e.lock = d.lock
        /\ e.queued = d.queued /\ e.stage = "health" /\ d.gen \in Nat
    BY DEF RefreshOf
  <2> HIDE DEF e
  <2> QED BY <1>2, <2>1, <2>2
<1> QED BY <1>1, <1>2

LEMMA ServedIs ==
  ASSUME NEW d \in RefreshOf, d.at <= d.gen, d.stage = "idle", NEW mode \in Modes
  PROVE  LET e == Served(d, mode) IN
         /\ e \in RefreshOf /\ e.at <= e.gen /\ e.gen = d.gen /\ e.lock = d.lock
         /\ \/ (~d.queued \/ d.lock) /\ e = d
            \/ d.queued /\ ~d.lock /\ e.stage = "health" /\ e.at = e.gen
<1>1. CASE d.queued /\ ~d.lock
  <2> DEFINE c == [d EXCEPT !.queued = FALSE]
  <2>1. Served(d, mode) = Asked(c, mode)
    BY <1>1 DEF Served
  <2>2. /\ c \in RefreshOf /\ c.at = d.at /\ c.gen = d.gen /\ ~c.lock /\ c.stage = "idle"
        /\ c.lock = d.lock
    BY <1>1 DEF RefreshOf
  <2> HIDE DEF c
  <2>3. c.at <= c.gen
    BY <2>2
  <2> PICK e : e = Asked(c, mode)
    OBVIOUS
  <2>4. /\ e \in RefreshOf /\ e.at <= e.gen /\ e.gen = c.gen /\ e.lock = c.lock
        /\ e.stage = "health" /\ e.at = e.gen
    BY <2>2, <2>3, AskedIs
  <2>5. e.lock = d.lock
    BY <2>2, <2>4, Zenon
  <2> QED BY <1>1, <2>1, <2>2, <2>4, <2>5
<1>2. CASE ~(d.queued /\ ~d.lock)
  BY <1>2 DEF Served
<1> QED BY <1>1, <1>2

-----------------------------------------------------------------------------
(* Every step keeps the screen's parts together. *)

(* Nothing of it changes but perhaps a reading. *)
LEMMA ScreenKept ==
  ASSUME UIOk, UNCHANGED <<scene, uiVars>>,
         \A r \in Readers : Looking(r)' <=> Looking(r)
  PROVE  UIOk'
<1>1. TypesOk'
  BY DEF UIOk, TypesOk, uiVars
<1>2. "refresh" \in Readers /\ "lookup" \in Readers
  BY DEF Readers
<1>3. (Looking("refresh")' <=> Looking("refresh")) /\ (Looking("lookup")' <=> Looking("lookup"))
  BY <1>2
<1>4. ControlOk'
  BY <1>3 DEF UIOk, ControlOk, uiVars
<1> QED BY <1>1, <1>4 DEF UIOk

(* A refresh is asked for. *)
LEMMA AskedUI ==
  ASSUME UIOk, NEW mode \in Modes, rd' = Asked(rd, mode),
         UNCHANGED <<scene, reads, ui, shown, startup, dialog, film, creation, writer, motion>>
  PROVE  UIOk'
<1>1. rd \in RefreshOf /\ rd.at <= rd.gen
  BY DEF UIOk, TypesOk
<1>2. /\ rd' \in RefreshOf /\ rd'.at <= rd'.gen /\ rd'.gen = rd.gen /\ rd'.lock = rd.lock
      /\ \/ (rd.lock \/ rd.stage # "idle") /\ rd'.queued /\ rd'.stage = rd.stage /\ rd'.at = rd.at
         \/ ~rd.lock /\ rd.stage = "idle" /\ rd'.stage = "health"
  BY <1>1, AskedIs
<1>3. TypesOk'
  BY <1>2 DEF UIOk, TypesOk
<1>4. ControlOk'
  BY <1>2 DEF UIOk, ControlOk, Looking
<1> QED BY <1>3, <1>4 DEF UIOk

LEMMA HealthUI ==
  ASSUME UIOk, DOMAIN reads = Readers, ReadHealth
  PROVE  UIOk'
<1>1. rd.stage = "health" /\ rd' = [rd EXCEPT !.stage = "catalogue"]
  BY DEF ReadHealth
<1>2. Looking("refresh")' /\ (Looking("lookup")' <=> Looking("lookup"))
  BY DEF ReadHealth, Begin, Looking, NewReading, NoReading, Readers
<1>3. /\ rd' \in RefreshOf /\ rd'.at = rd.at /\ rd'.gen = rd.gen /\ rd'.lock = rd.lock
      /\ rd'.stage = "catalogue"
  BY <1>1 DEF UIOk, TypesOk, RefreshOf
<1>4. TypesOk'
  BY <1>3 DEF ReadHealth, UIOk, TypesOk
<1>5. ControlOk'
  BY <1>1, <1>2, <1>3 DEF ReadHealth, UIOk, ControlOk
<1> QED BY <1>4, <1>5 DEF UIOk, ReadHealth

LEMMA ContextUI ==
  ASSUME UIOk, ReadContext
  PROVE  UIOk'
<1>1. /\ rd.stage = "catalogue" /\ rd' = [rd EXCEPT !.stage = "context"]
      /\ UNCHANGED <<scene, reads, ui, shown, startup, dialog, film, creation, writer, motion>>
  BY DEF ReadContext, catalogueVars
<1>3. /\ rd' \in RefreshOf /\ rd'.at = rd.at /\ rd'.gen = rd.gen /\ rd'.lock = rd.lock
      /\ rd'.stage = "context"
  BY <1>1 DEF UIOk, TypesOk, RefreshOf
<1>4. TypesOk'
  BY <1>1, <1>3 DEF UIOk, TypesOk
<1>5. ControlOk'
  BY <1>1, <1>3 DEF UIOk, ControlOk, Looking
<1> QED BY <1>1, <1>4, <1>5 DEF UIOk

LEMMA ProjectionIs ==
  ASSUME NEW x \in Reading
  PROVE  /\ Projection(x) \in ScreenOf /\ Projection(x).refused = x.refused
         /\ ~x.refused => Projection(x).records = x.records
         /\ x.refused => Projection(x).records = [w \in Workstreams |-> None]
<1>1. [w \in Workstreams |-> None] \in Table
  BY DEF Table
<1>2. x.refused \in BOOLEAN /\ x.records \in Table
  BY DEF Reading
<1> QED BY <1>1, <1>2 DEF Projection, ScreenOf

(* A refresh ends. *)
LEMMA EndRefreshUI ==
  ASSUME UIOk, DOMAIN reads = Readers, rd.stage # "idle", Forget("refresh"), UNCHANGED scene,
         NEW ok \in BOOLEAN, EndRefresh(ok), ok => reads["refresh"] \in Reading
  PROVE  UIOk'
<1>1. /\ rd \in RefreshOf /\ ui.mode \in Modes /\ rd.at <= rd.gen /\ startup \in StartupOf
      /\ shown \in ScreenOf \union {None}
  BY DEF UIOk, TypesOk, UIOf
<1> PICK idle : idle = [rd EXCEPT !.stage = "idle"]
  OBVIOUS
<1>2. /\ idle \in RefreshOf /\ idle.at = rd.at /\ idle.gen = rd.gen /\ idle.lock = rd.lock
      /\ idle.stage = "idle"
  BY <1>1 DEF RefreshOf
<1>3. /\ rd' = idle \/ rd' = Served(idle, ui.mode)
      /\ startup' \in StartupOf
      /\ UNCHANGED <<ui, dialog, film, creation, writer>>
  BY <1>1 DEF EndRefresh, StartupOf
<1>4. /\ rd' \in RefreshOf /\ rd'.at <= rd'.gen /\ rd'.gen = rd.gen /\ rd'.lock = rd.lock
      /\ rd'.stage = "idle" \/ (rd'.stage = "health" /\ ~rd'.lock)
  <2>1. idle.at <= idle.gen
    BY <1>1, <1>2
  <2>2. CASE rd' = idle
    BY <1>2, <2>1, <2>2
  <2>3. CASE rd' = Served(idle, ui.mode)
    <3> PICK e : e = Served(idle, ui.mode)
      OBVIOUS
    <3>1. /\ e \in RefreshOf /\ e.at <= e.gen /\ e.gen = idle.gen /\ e.lock = idle.lock
          /\ \/ (~idle.queued \/ idle.lock) /\ e = idle
             \/ idle.queued /\ ~idle.lock /\ e.stage = "health" /\ e.at = e.gen
      BY <1>1, <1>2, <2>1, ServedIs
    <3>2. e.stage = "idle" \/ (e.stage = "health" /\ ~e.lock)
      BY <1>2, <3>1
    <3> QED BY <1>2, <2>3, <3>1, <3>2
  <2> QED BY <1>3, <2>2, <2>3
<1>5. shown' \in ScreenOf \union {None}
  BY <1>1, ProjectionIs DEF EndRefresh
<1>6. motion' \in Scenery
  BY Synced DEF EndRefresh, UIOk, TypesOk
<1>7. TypesOk'
  BY <1>3, <1>4, <1>5, <1>6 DEF UIOk, TypesOk
<1>8. ~Looking("refresh")' /\ (Looking("lookup")' <=> Looking("lookup"))
  BY DEF Forget, Looking, Readers
<1>9. ControlOk'
  BY <1>3, <1>4, <1>8 DEF UIOk, ControlOk
<1> QED BY <1>7, <1>9 DEF UIOk

LEMMA StrideUI ==
  ASSUME UIOk, StrideDone
  PROVE  UIOk'
<1>1. /\ startup' = [startup EXCEPT !.stride = TRUE, !.on = ~startup.settled]
      /\ UNCHANGED <<scene, reads, ui, shown, rd, dialog, film, creation, writer>>
  BY DEF StrideDone, catalogueVars
<1>2. startup' \in StartupOf
  BY <1>1 DEF UIOk, TypesOk, StartupOf
<1>3. motion' \in Scenery
  BY Synced DEF StrideDone, UIOk, TypesOk
<1>4. TypesOk'
  BY <1>1, <1>2, <1>3 DEF UIOk, TypesOk
<1>5. ControlOk'
  BY <1>1 DEF UIOk, ControlOk, Looking
<1> QED BY <1>1, <1>4, <1>5 DEF UIOk

LEMMA SelectableIs ==
  ASSUME UIOk, NEW w \in Selectable
  PROVE  /\ w \in Workstreams /\ shown # None /\ shown \in ScreenOf
         /\ shown.records[w] \in Row /\ shown.records[w] # None
BY DEF Selectable, UIOk, TypesOk, ScreenOf, Table

LEMMA BeginLifecycleUI ==
  ASSUME UIOk, dialog.state = "none", creation = "none", BeginSelectedLifecycle
  PROVE  UIOk'
<1>1. PICK w \in Selectable :
         dialog' = [state |-> "confirm", ws |-> w, status |-> shown.records[w].status,
                    rev |-> shown.records[w].rev, cancelled |-> FALSE, warns |-> FALSE,
                    mode |-> ui.mode, filter |-> ui.filter]
  BY DEF BeginSelectedLifecycle
<1>2. UNCHANGED <<scene, reads, ui, shown, rd, startup, film, creation, writer>>
  BY DEF BeginSelectedLifecycle, catalogueVars
<1>3. shown.records[w].status \in Statuses /\ shown.records[w].rev \in Nat /\ w \in Workstreams
  BY SelectableIs DEF Row, Statuses
<1>4. ui.mode \in Modes /\ ui.filter \in Statuses
  BY DEF UIOk, TypesOk, UIOf
<1>5. dialog' \in DialogOf /\ dialog'.state = "confirm"
  BY <1>1, <1>3, <1>4 DEF DialogOf
<1>6. motion' \in Scenery
  BY Synced DEF BeginSelectedLifecycle
<1>7. TypesOk'
  BY <1>2, <1>5, <1>6 DEF UIOk, TypesOk
<1>8. ControlOk'
  BY <1>2, <1>5 DEF UIOk, ControlOk, Looking, Results
<1> QED BY <1>2, <1>7, <1>8 DEF UIOk

LEMMA NewWriterIs ==
  ASSUME NEW kind \in {"status", "create"}
  PROVE  /\ NewWriter(kind) \in WriterOf /\ NewWriter(kind).kind = kind
         /\ NewWriter(kind).running /\ ~NewWriter(kind).did /\ ~NewWriter(kind).changed
         /\ NewWriter(kind).code = "none" /\ ~NewWriter(kind).warns
BY DEF NewWriter, WriterOf

LEMMA DialogIs ==
  ASSUME TypesOk, dialog.state # "none"
  PROVE  dialog \in DialogOf
BY DEF TypesOk, NoDialog

LEMMA WriterIs ==
  ASSUME TypesOk, writer.kind # "none"
  PROVE  writer \in WriterOf
BY DEF TypesOk, NoWriter

LEMMA InvalidatedIs ==
  ASSUME NEW d \in RefreshOf
  PROVE  LET e == Invalidated(d) IN
         /\ e \in RefreshOf /\ e.lock /\ e.gen = d.gen + 1 /\ e.at = d.at
         /\ e.stage = d.stage /\ e.queued = d.queued
<1>1. PICK n \in Nat : n = d.gen + 1
  BY DEF RefreshOf
<1> DEFINE e == [d EXCEPT !.lock = TRUE, !.gen = n]
<1>2. /\ e \in RefreshOf /\ e.lock /\ e.gen = n /\ e.at = d.at /\ e.stage = d.stage
      /\ e.queued = d.queued
  BY <1>1 DEF RefreshOf
<1>3. Invalidated(d) = e
  BY <1>1 DEF Invalidated, RefreshOf
<1> HIDE DEF e
<1> QED BY <1>1, <1>2, <1>3

LEMMA StartLifecycleUI ==
  ASSUME UIOk, StartLifecycleWriter
  PROVE  UIOk'
<1>1. /\ dialog.state = "confirm" /\ dialog' = [dialog EXCEPT !.state = "pending"]
      /\ film' = (IF Live /\ Framed
                  THEN [phase |-> "writer", ticks |-> 0, id |-> rd.gen + 1] ELSE None)
      /\ rd' = [rd EXCEPT !.lock = TRUE, !.gen = @ + 1] /\ writer' = NewWriter("status")
      /\ UNCHANGED <<scene, reads, ui, shown, startup, creation>>
  BY DEF StartLifecycleWriter, Invalidated, catalogueVars
<1>2. dialog' \in DialogOf /\ dialog'.state = "pending"
  BY <1>1, DialogIs DEF UIOk, DialogOf
<1>3. /\ rd' \in RefreshOf /\ rd'.at = rd.at /\ rd'.gen = rd.gen + 1 /\ rd'.lock
      /\ rd'.stage = rd.stage /\ rd.at <= rd.gen /\ rd.gen \in Nat /\ rd.at \in Nat
  <2>1. rd \in RefreshOf /\ rd.at <= rd.gen
    BY DEF UIOk, TypesOk
  <2>2. rd.gen \in Nat /\ rd.at \in Nat
    BY <2>1 DEF RefreshOf
  <2>3. /\ rd'.lock /\ rd'.gen = rd.gen + 1 /\ rd'.at = rd.at /\ rd'.stage = rd.stage
        /\ rd' \in RefreshOf
    BY <2>1, <2>2, InvalidatedIs DEF StartLifecycleWriter
  <2> QED BY <2>1, <2>2, <2>3
<1>4. film' \in FilmOf \union {None} /\ (film' # None => film'.phase = "writer")
  BY <1>1, <1>3, SceneUI DEF FilmOf, UIOk
<1>5. /\ writer' \in WriterOf /\ writer'.kind = "status" /\ writer'.running
  BY <1>1, NewWriterIs
<1>6. motion' \in Scenery
  BY Synced DEF StartLifecycleWriter
<1>7. TypesOk'
  BY <1>1, <1>2, <1>3, <1>4, <1>5, <1>6 DEF UIOk, TypesOk
<1>8. creation = "none" /\ ~Looking("lookup")
  BY <1>1 DEF UIOk, ControlOk
<1>9. ControlOk'
  BY <1>1, <1>2, <1>3, <1>4, <1>5, <1>8 DEF UIOk, ControlOk, Looking, Made, Results
<1> QED BY <1>1, <1>7, <1>9 DEF UIOk

LEMMA LeftIs ==
  ASSUME NEW d \in DialogOf, NEW destination \in Statuses, ui \in UIOf
  PROVE  Left(d, destination) \in UIOf
BY DEF Left, UIOf, DialogOf, Modes

LEMMA CloseDialogUI ==
  ASSUME UIOk, dialog.state \in Results \union {"confirm"}, NEW destination \in Statuses,
         CloseDialog(dialog, destination)
  PROVE  UIOk'
<1>1. /\ ui' = Left(dialog, destination) /\ dialog' = NoDialog /\ film' = None
      /\ writer' = NoWriter /\ UNCHANGED <<scene, reads, shown, rd, startup, creation>>
  BY DEF CloseDialog, catalogueVars
<1>2. dialog \in DialogOf /\ dialog.state # "none" /\ dialog.state # "pending"
  BY DialogIs DEF Results, UIOk
<1>3. ui' \in UIOf
  BY <1>1, <1>2, LeftIs DEF UIOk, TypesOk
<1>4. motion' \in Scenery
  BY Synced DEF CloseDialog
<1>5. TypesOk'
  BY <1>1, <1>3, <1>4 DEF UIOk, TypesOk
<1>6. creation = "none" /\ ~Looking("lookup") /\ ~rd.lock
  BY <1>2 DEF UIOk, ControlOk
<1>7. ControlOk'
  BY <1>1, <1>6 DEF UIOk, ControlOk, Looking, Made, Results, NoDialog, NoWriter
<1> QED BY <1>1, <1>5, <1>7 DEF UIOk

LEMMA CancelLifecycleUI ==
  ASSUME UIOk, dialog.state = "pending", CancelLifecycle
  PROVE  UIOk'
<1>1. /\ dialog' = [dialog EXCEPT !.cancelled = TRUE]
      /\ writer' = [writer EXCEPT !.cancelled = TRUE, !.held = FALSE]
      /\ UNCHANGED <<scene, reads, ui, shown, rd, startup, film, creation, motion>>
  BY DEF CancelLifecycle, catalogueVars
<1>2. dialog' \in DialogOf /\ dialog'.state = "pending"
  BY <1>1, DialogIs DEF UIOk, DialogOf
<1>3. writer.kind = "status"
  BY DEF UIOk, ControlOk
<1>4. /\ writer' \in WriterOf /\ writer'.kind = writer.kind /\ writer'.running = writer.running
      /\ writer'.warns = writer.warns
  BY <1>1, <1>3, WriterIs DEF UIOk, WriterOf
<1>5. TypesOk'
  BY <1>1, <1>2, <1>4 DEF UIOk, TypesOk
<1>6. ControlOk'
  BY <1>1, <1>2, <1>3, <1>4 DEF UIOk, ControlOk, Looking, Results
<1> QED BY <1>1, <1>5, <1>6 DEF UIOk

LEMMA SettleIs == \A found : SettleLifecycle(found) \in Results
BY DEF SettleLifecycle, Results

(* The lock is taken off. *)
LEMMA FreedIs ==
  ASSUME NEW d \in RefreshOf, d.at <= d.gen, NEW mode \in Modes
  PROVE  LET e == Served([d EXCEPT !.lock = FALSE], mode) IN
         /\ e \in RefreshOf /\ e.at <= e.gen /\ ~e.lock
         /\ e.stage \in {"catalogue", "context"} <=> d.stage \in {"catalogue", "context"}
         /\ d.stage # "idle" => e.at = d.at /\ e.gen = d.gen
<1> PICK free : free = [d EXCEPT !.lock = FALSE]
  OBVIOUS
<1>1. /\ free \in RefreshOf /\ free.at = d.at /\ free.gen = d.gen /\ free.stage = d.stage
      /\ ~free.lock
  BY DEF RefreshOf
<1>2. CASE free.queued
  <2>1. PICK c : c = [free EXCEPT !.queued = FALSE]
    OBVIOUS
  <2>2. /\ c \in RefreshOf /\ c.at = free.at /\ c.gen = free.gen /\ c.stage = free.stage
        /\ ~c.lock
    BY <1>1, <2>1 DEF RefreshOf
  <2>3. Served(free, mode) = Asked(c, mode) /\ c.at <= c.gen
    BY <1>1, <1>2, <2>1, <2>2 DEF Served
  <2>4. PICK e : e = Asked(c, mode)
    OBVIOUS
  <2>5. /\ e \in RefreshOf /\ e.at <= e.gen /\ e.gen = c.gen /\ e.lock = c.lock
        /\ \/ (c.lock \/ c.stage # "idle") /\ e.stage = c.stage /\ e.at = c.at
           \/ c.stage = "idle" /\ e.stage = "health"
    BY <2>2, <2>3, <2>4, AskedIs
  <2> QED BY <1>1, <2>2, <2>3, <2>4, <2>5
<1>3. CASE ~free.queued
  <2>1. Served(free, mode) = free
    BY <1>3 DEF Served
  <2> QED BY <1>1, <2>1
<1> QED BY <1>2, <1>3

LEMMA EndLifecycleUI ==
  ASSUME UIOk, DOMAIN reads = Readers, Settling("status"), Forget("lookup"), UNCHANGED scene,
         NEW read \in BOOLEAN, EndLifecycle(read), read => reads["lookup"] \in Reading
  PROVE  UIOk'
<1> PICK seen : seen = IF read THEN Projection(reads["lookup"]) ELSE shown
  OBVIOUS
<1> PICK state \in Results :
      state = SettleLifecycle(IF read /\ ~seen.refused THEN seen.records[dialog.ws] ELSE None)
  BY SettleIs
<1> PICK settled : settled = [dialog EXCEPT !.state = state, !.warns = writer.warns]
  OBVIOUS
<1> PICK boundary \in BOOLEAN : boundary = (film # None /\ film.ticks = PassTicks)
  OBVIOUS
<1> PICK over \in BOOLEAN : over = (state = "confirmed" /\ boundary /\ ~writer.warns)
  OBVIOUS
<1>1. /\ shown' = seen
      /\ dialog' = (IF over THEN NoDialog ELSE settled)
      /\ writer' = (IF over THEN NoWriter ELSE writer)
      /\ ui' = (IF over THEN Left(settled, "open") ELSE ui)
      /\ film' = (IF film = None \/ state # "confirmed" \/ boundary THEN None
                  ELSE [film EXCEPT !.phase = "finishing"])
      /\ rd' = Served([rd EXCEPT !.lock = FALSE], ui'.mode)
      /\ UNCHANGED <<startup, creation>> /\ SyncMotionTimer
  BY DEF EndLifecycle
<1>2. /\ writer.kind = "status" /\ ~writer.running /\ Looking("lookup")
      /\ DOMAIN reads = Readers
  BY DEF Settling, Looking
<1>3. dialog.state = "pending" /\ creation = "none" /\ rd.lock /\ writer \in WriterOf
      /\ dialog \in DialogOf
  BY <1>2, DialogIs, WriterIs DEF UIOk, ControlOk, Results
<1>4. settled \in DialogOf /\ settled.state = state /\ settled.warns = writer.warns
  BY <1>3 DEF DialogOf, WriterOf
<1>5. ui' \in UIOf /\ ui'.mode \in Modes
  <2>1. Left(settled, "open") \in UIOf
    BY <1>4, LeftIs DEF UIOk, TypesOk, Statuses
  <2> QED BY <1>1, <2>1 DEF UIOk, TypesOk, UIOf
<1>7. /\ rd' \in RefreshOf /\ rd'.at <= rd'.gen /\ ~rd'.lock
      /\ rd'.stage \in {"catalogue", "context"} <=> rd.stage \in {"catalogue", "context"}
  <2> PICK mode \in Modes : mode = ui'.mode
    BY <1>5
  <2>1. rd \in RefreshOf /\ rd.at <= rd.gen
    BY DEF UIOk, TypesOk
  <2> QED BY <1>1, <2>1, FreedIs
<1>8. seen \in ScreenOf \union {None}
  BY ProjectionIs DEF UIOk, TypesOk
<1>9. /\ film' \in FilmOf \union {None}
      /\ film' # None => state = "confirmed" /\ ~over /\ film'.phase = "finishing"
  <2>1. film \in FilmOf \union {None}
    BY DEF UIOk, TypesOk
  <2>2. CASE film = None \/ state # "confirmed" \/ boundary
    BY <1>1, <2>2
  <2>3. CASE ~(film = None \/ state # "confirmed" \/ boundary)
    <3>1. film \in FilmOf /\ film' = [film EXCEPT !.phase = "finishing"]
      BY <1>1, <2>1, <2>3
    <3>2. film' \in FilmOf /\ film'.phase = "finishing"
      BY <3>1 DEF FilmOf
    <3> QED BY <2>3, <3>2
  <2> QED BY <2>2, <2>3
<1>10. motion' \in Scenery
  BY <1>1, Synced
<1>11. dialog' \in DialogOf \union {NoDialog} /\ writer' \in WriterOf \union {NoWriter}
  BY <1>1, <1>3, <1>4
<1>12. TypesOk'
  BY <1>1, <1>5, <1>7, <1>8, <1>9, <1>10, <1>11 DEF UIOk, TypesOk
<1>13. ~Looking("lookup")' /\ (Looking("refresh")' <=> Looking("refresh"))
  BY <1>2 DEF Forget, Looking, Readers
<1>14. /\ over => dialog'.state = "none" /\ writer'.kind = "none"
       /\ ~over => dialog'.state = state /\ dialog'.warns = writer'.warns /\ writer' = writer
       /\ creation' = "none"
  BY <1>1, <1>3, <1>4 DEF NoDialog, NoWriter
<1>15. dialog'.state # "pending" /\ "pending" \notin Results /\ "none" \notin Results
       /\ "confirm" \notin Results
  BY <1>14 DEF Results
<1>16. rd.stage \in {"catalogue", "context"} <=> Looking("refresh")
  BY DEF UIOk, ControlOk
<1>17. ControlOk'
  BY <1>2, <1>7, <1>9, <1>13, <1>14, <1>15, <1>16 DEF ControlOk, Made
<1> QED BY <1>12, <1>17 DEF UIOk

LEMMA WriterActsUI ==
  ASSUME UIOk, WriterActs
  PROVE  UIOk'
<1>1. /\ writer.kind # "none" /\ writer.running
      /\ writer' = [writer EXCEPT !.did = TRUE, !.changed = record' # record]
      /\ UNCHANGED <<scene, reads, ui, shown, rd, startup, dialog, film, creation, motion>>
  BY DEF WriterActs
<1>2. PICK c \in BOOLEAN : c = (record' # record)
  OBVIOUS
<1>3. writer' = [writer EXCEPT !.did = TRUE, !.changed = c]
  BY <1>1, <1>2
<1>4. /\ writer' \in WriterOf /\ writer'.kind = writer.kind /\ writer'.running = writer.running
      /\ writer'.warns = writer.warns
  BY <1>1, <1>3, WriterIs DEF UIOk, WriterOf
<1>5. TypesOk'
  BY <1>1, <1>4 DEF UIOk, TypesOk
<1>6. ControlOk'
  BY <1>1, <1>4 DEF UIOk, ControlOk, Looking
<1> QED BY <1>1, <1>5, <1>6 DEF UIOk

LEMMA WriterEndsUI ==
  ASSUME UIOk, DOMAIN reads = Readers, NEW code \in {"ok", "error", "none"},
         NEW warns \in BOOLEAN, WriterEnds(code, warns)
  PROVE  UIOk'
<1>1. /\ writer.kind # "none" /\ writer.running
      /\ writer' = [writer EXCEPT !.running = FALSE, !.held = FALSE,
                                  !.code = code, !.warns = warns]
      /\ film' = (IF film = None THEN None ELSE [film EXCEPT !.phase = "reconcile"])
      /\ UNCHANGED <<scene, ui, shown, rd, startup, dialog, creation, motion>>
  BY DEF WriterEnds
<1>2. /\ writer' \in WriterOf /\ writer'.kind = writer.kind /\ ~writer'.running
  BY <1>1, WriterIs DEF UIOk, WriterOf
<1>3. film' \in FilmOf \union {None} /\ (film' # None => film # None /\ film'.phase = "reconcile")
  BY <1>1 DEF UIOk, TypesOk, FilmOf
<1>4. Looking("lookup")' /\ (Looking("refresh")' <=> Looking("refresh"))
  BY DEF WriterEnds, Begin, Looking, NewReading, NoReading, Readers
<1>5. /\ dialog.state = "pending" \/ creation = "pending"
      /\ film # None => dialog.state = "pending"
  BY <1>1 DEF UIOk, ControlOk
<1>6. TypesOk'
  BY <1>1, <1>2, <1>3 DEF UIOk, TypesOk
<1>7. ControlOk'
  BY <1>1, <1>2, <1>3, <1>4, <1>5 DEF UIOk, ControlOk
<1> QED BY <1>1, <1>6, <1>7 DEF UIOk

LEMMA OpenFormUI ==
  ASSUME UIOk, dialog.state = "none", creation = "none", OpenForm
  PROVE  UIOk'
<1>1. /\ ui.mode = Home /\ creation' = "form"
      /\ UNCHANGED <<scene, reads, ui, shown, rd, startup, dialog, film, writer>>
  BY DEF OpenForm, catalogueVars
<1>2. motion' \in Scenery
  BY Synced DEF OpenForm
<1>3. TypesOk'
  BY <1>1, <1>2 DEF UIOk, TypesOk
<1>4. ControlOk'
  BY <1>1 DEF UIOk, ControlOk, Looking, Made, Results
<1> QED BY <1>1, <1>3, <1>4 DEF UIOk

LEMMA StartWriterUI ==
  ASSUME UIOk, creation = "form", StartWriter
  PROVE  UIOk'
<1>1. /\ creation' = "pending" /\ writer' = NewWriter("create")
      /\ UNCHANGED <<scene, reads, ui, shown, rd, startup, dialog, film, motion>>
  BY DEF StartWriter, catalogueVars
<1>2. writer' \in WriterOf /\ writer'.kind = "create" /\ writer'.running
  BY <1>1, NewWriterIs
<1>3. TypesOk'
  BY <1>1, <1>2 DEF UIOk, TypesOk
<1>4. ~Looking("lookup") /\ dialog.state = "none" /\ film = None
  BY DEF UIOk, ControlOk
<1>5. ControlOk'
  BY <1>1, <1>2, <1>4 DEF UIOk, ControlOk, Looking, Made, Results
<1> QED BY <1>1, <1>3, <1>5 DEF UIOk

LEMMA CancelCreateUI ==
  ASSUME UIOk, creation = "pending", CancelCreate
  PROVE  UIOk'
<1>1. /\ writer' = [writer EXCEPT !.cancelled = @ \/ writer.held]
      /\ UNCHANGED <<scene, reads, ui, shown, rd, startup, dialog, film, creation, motion>>
  BY DEF CancelCreate, catalogueVars
<1>2. writer \in WriterOf
  <2>1. writer.kind # "none"
    BY DEF UIOk, ControlOk
  <2> QED BY <2>1, WriterIs DEF UIOk
<1>3. PICK c \in BOOLEAN : c = (writer.cancelled \/ writer.held)
  OBVIOUS
<1>4. writer' = [writer EXCEPT !.cancelled = c]
  BY <1>1, <1>3
<1>5. /\ writer' \in WriterOf /\ writer'.kind = writer.kind /\ writer'.running = writer.running
      /\ writer'.warns = writer.warns
  BY <1>2, <1>4 DEF WriterOf
<1>6. TypesOk'
  BY <1>1, <1>5 DEF UIOk, TypesOk
<1>7. ControlOk'
  BY <1>1, <1>5 DEF UIOk, ControlOk, Looking
<1> QED BY <1>1, <1>6, <1>7 DEF UIOk

LEMMA CloseCreateUI ==
  ASSUME UIOk, creation \notin {"none", "pending"}, CloseCreate
  PROVE  UIOk'
<1>1. /\ creation' = "none" /\ writer' = NoWriter
      /\ UNCHANGED <<scene, reads, ui, shown, rd, startup, dialog, film>>
  BY DEF CloseCreate, catalogueVars
<1>2. motion' \in Scenery
  BY Synced DEF CloseCreate
<1>3. TypesOk'
  BY <1>1, <1>2 DEF UIOk, TypesOk
<1>4. ~Looking("lookup") /\ dialog.state = "none" /\ film = None
  BY DEF UIOk, ControlOk
<1>5. ControlOk'
  BY <1>1, <1>4 DEF UIOk, ControlOk, Looking, Made, Results, NoWriter
<1> QED BY <1>1, <1>3, <1>5 DEF UIOk

LEMMA SettleCreateIs == \A read, refused, found : SettleCreate(read, refused, found) \in Made
BY DEF SettleCreate, Made, Results

LEMMA FinishCreateUI ==
  ASSUME UIOk, DOMAIN reads = Readers, NEW read \in BOOLEAN, FinishCreate(read),
         read => reads["lookup"] \in Reading
  PROVE  UIOk'
<1>1. /\ writer.kind = "create" /\ ~writer.running /\ Looking("lookup")
      /\ Forget("lookup") /\ UNCHANGED <<scene, ui, startup, dialog, film, writer, motion>>
      /\ creation' \in Made
      /\ shown' = (IF read THEN Projection(reads["lookup"]) ELSE shown)
      /\ rd' = [rd EXCEPT !.overtaken = @ \/ read]
  BY SettleCreateIs DEF FinishCreate, Settling, Reconciled, Looking
<1>2. shown' \in ScreenOf \union {None}
  BY <1>1, ProjectionIs DEF UIOk, TypesOk
<1>3. PICK c \in BOOLEAN : c = (rd.overtaken \/ read)
  OBVIOUS
<1>4. rd' = [rd EXCEPT !.overtaken = c]
  BY <1>1, <1>3
<1>5. /\ rd' \in RefreshOf /\ rd'.at = rd.at /\ rd'.gen = rd.gen /\ rd'.lock = rd.lock
      /\ rd'.stage = rd.stage
  BY <1>4 DEF UIOk, TypesOk, RefreshOf
<1>6. ~Looking("lookup")' /\ (Looking("refresh")' <=> Looking("refresh"))
  BY <1>1 DEF Forget, Looking, Readers
<1>7. creation = "pending" /\ dialog.state = "none" /\ film = None
  BY <1>1 DEF UIOk, ControlOk, Results
<1>8. TypesOk'
  BY <1>1, <1>2, <1>5 DEF UIOk, TypesOk
<1>9. ControlOk'
  BY <1>1, <1>5, <1>6, <1>7 DEF UIOk, ControlOk
<1> QED BY <1>1, <1>8, <1>9 DEF UIOk

(* The page turns. *)
LEMMA TurnUI ==
  ASSUME UIOk, ui' \in UIOf, creation # "none" => ui'.mode = Home, motion' \in Scenery,
         UNCHANGED <<scene, reads, shown, rd, startup, dialog, film, creation, writer>>
  PROVE  UIOk'
<1>1. TypesOk'
  BY DEF UIOk, TypesOk
<1>2. ControlOk'
  BY DEF UIOk, ControlOk, Looking
<1> QED BY <1>1, <1>2 DEF UIOk

LEMMA OpenUI ==
  ASSUME UIOk, creation = "none", Open
  PROVE  UIOk'
<1>1. PICK w \in Selectable : ui' = [ui EXCEPT !.mode = w]
  BY DEF Open
<1>2. /\ rd' = Asked(rd, ui'.mode)
      /\ UNCHANGED <<scene, reads, shown, startup, dialog, film, creation, writer, motion>>
  BY DEF Open, catalogueVars
<1>3. ui' \in UIOf /\ ui'.mode \in Modes
  BY <1>1, SelectableIs DEF UIOk, TypesOk, UIOf, Modes
<1>4. rd \in RefreshOf /\ rd.at <= rd.gen
  BY DEF UIOk, TypesOk
<1>5. PICK mode \in Modes : mode = ui'.mode
  BY <1>3
<1>6. /\ rd' \in RefreshOf /\ rd'.at <= rd'.gen /\ rd'.gen = rd.gen /\ rd'.lock = rd.lock
      /\ \/ (rd.lock \/ rd.stage # "idle") /\ rd'.queued /\ rd'.stage = rd.stage /\ rd'.at = rd.at
         \/ ~rd.lock /\ rd.stage = "idle" /\ rd'.stage = "health"
  BY <1>2, <1>4, <1>5, AskedIs
<1>7. TypesOk'
  BY <1>2, <1>3, <1>6 DEF UIOk, TypesOk
<1>8. ControlOk'
  BY <1>2, <1>6 DEF UIOk, ControlOk, Looking
<1> QED BY <1>2, <1>7, <1>8 DEF UIOk

(* The film changes, or goes. *)
LEMMA FilmUI ==
  ASSUME UIOk, film # None, NEW f \in FilmOf \union {None}, film' = f,
         f # None => f.phase = film.phase,
         motion' \in Scenery,
         UNCHANGED <<scene, reads, ui, shown, rd, startup, dialog, creation, writer>>
  PROVE  UIOk'
<1>1. TypesOk'
  BY DEF UIOk, TypesOk
<1>2. ControlOk'
  BY DEF UIOk, ControlOk, Looking
<1> QED BY <1>1, <1>2 DEF UIOk

-----------------------------------------------------------------------------
(* What is shown, what was written and what moves *)

(* b is not earlier than a. *)
Older(a, b) ==
    \A w \in Workstreams : a[w] # None => b[w] # None /\ a[w].rev <= b[w].rev

Counts == rd.stage \in {"catalogue", "context"} /\ rd.at = rd.gen /\ ~rd.overtaken

(* What is shown is not later than the store, nor than what will be shown. *)
ShownOk ==
    /\ shown # None => Older(shown.records, record)
    /\ \A r \in Readers : Looking(r) => Older(reads[r].records, record)
    /\ Counts /\ shown # None => Older(shown.records, reads["refresh"].records)
    /\ Looking("lookup") /\ writer.kind = "status" /\ shown # None
          => Older(shown.records, reads["lookup"].records)

(* What the writer wrote is in the store, and in what is looked up after it. *)
Target == IF writer.kind = "status" THEN dialog.ws ELSE scene.named
Before == IF writer.kind = "status" THEN dialog.rev ELSE 0
Written(table) == table[Target] # None /\ Before < table[Target].rev

DialogTrue ==
    dialog.state # "none" => record[dialog.ws] # None /\ dialog.rev <= record[dialog.ws].rev

WriterTrue ==
    writer.kind # "none" =>
        /\ writer.changed => /\ writer.did /\ Written(record)
                             /\ Looking("lookup") => Written(reads["lookup"].records)
        /\ writer.kind = "create" /\ writer.did => writer.changed
        /\ writer.code = "ok" => writer.did

WroteOk == DialogTrue /\ WriterTrue /\ ResultTrue

(* The timer serves the scene there is, or a refresh will start it. *)
Coming == rd.queued \/ (rd.stage # "idle" /\ rd.at = rd.gen)

MotionOk ==
    /\ motion # "none" => motion = WantedMotionScene
    /\ WantedMotionScene # "none" /\ motion = "none" => Coming

StoreOk ==
    /\ record \in Table /\ DOMAIN reads = Readers
    /\ \A r \in Readers : Looking(r) => reads[r] \in Reading

LEMMA OlderSame == ASSUME NEW a \in Table PROVE Older(a, a)
BY DEF Older, Table, Row

LEMMA OlderStill ==
  ASSUME NEW a \in Table, NEW b \in Table, NEW c \in Table, Older(a, b), Older(b, c)
  PROVE  Older(a, c)
<1> SUFFICES ASSUME NEW w \in Workstreams, a[w] # None
             PROVE  c[w] # None /\ a[w].rev <= c[w].rev
  BY DEF Older
<1>1. b[w] # None /\ a[w].rev <= b[w].rev /\ c[w] # None /\ b[w].rev <= c[w].rev
  BY DEF Older
<1>2. a[w].rev \in Nat /\ b[w].rev \in Nat /\ c[w].rev \in Nat
  BY <1>1 DEF Table, Row
<1> QED BY <1>1, <1>2

LEMMA OlderNone ==
  ASSUME NEW b PROVE Older([w \in Workstreams |-> None], b)
BY DEF Older

(* A reading has what it had, or what there is. *)
ReadsMove ==
    \A r \in Readers : Looking(r)' =>
        \/ reads'[r].records = record
        \/ Looking(r) /\ reads'[r].records = reads[r].records

Grows == record' \in Table /\ Older(record, record') /\ ReadsMove /\ UNCHANGED scene

LEMMA ReadersAre == "refresh" \in Readers /\ "lookup" \in Readers
BY DEF Readers

LEMMA ShownKept ==
  ASSUME UIOk, UIOk', StoreOk, ShownOk, Grows, UNCHANGED shown,
         Counts' => Counts \/ reads'["refresh"].records = record,
         Looking("lookup")' /\ writer'.kind = "status"
            => writer.kind = "status" \/ reads'["lookup"].records = record
  PROVE  ShownOk'
<1>1. shown # None => shown.records \in Table
  BY DEF UIOk, TypesOk, ScreenOf
<1>2. record \in Table /\ record' \in Table /\ Older(record, record')
  BY DEF StoreOk, Grows
<1>3. \A r \in Readers : Looking(r) => reads[r].records \in Table
  BY DEF StoreOk, Reading
<1>4. shown' # None => Older(shown'.records, record')
  BY <1>1, <1>2, OlderStill DEF ShownOk
<1>5. ASSUME NEW r \in Readers, Looking(r)' PROVE Older(reads'[r].records, record')
  <2>1. CASE reads'[r].records = record
    BY <1>2, <2>1
  <2>2. CASE Looking(r) /\ reads'[r].records = reads[r].records
    BY <1>2, <1>3, <2>2, OlderStill DEF ShownOk
  <2> QED BY <1>5, <2>1, <2>2 DEF Grows, ReadsMove
<1>6. ASSUME Counts', shown' # None PROVE Older(shown'.records, reads'["refresh"].records)
  <2>1. Looking("refresh")'
    BY <1>6 DEF Counts, UIOk, ControlOk
  <2>2. CASE reads'["refresh"].records = record
    BY <1>6, <2>2 DEF ShownOk
  <2>3. CASE reads'["refresh"].records # record
    <3>1. Counts /\ reads'["refresh"].records = reads["refresh"].records
      BY <1>6, <2>1, <2>3, ReadersAre DEF Grows, ReadsMove
    <3> QED BY <1>6, <3>1 DEF ShownOk
  <2> QED BY <2>2, <2>3
<1>7. ASSUME Looking("lookup")', writer'.kind = "status", shown' # None
      PROVE  Older(shown'.records, reads'["lookup"].records)
  <2>1. CASE reads'["lookup"].records = record
    BY <1>7, <2>1 DEF ShownOk
  <2>2. CASE reads'["lookup"].records # record
    <3>1. writer.kind = "status" /\ Looking("lookup")
          /\ reads'["lookup"].records = reads["lookup"].records
      BY <1>7, <2>2, ReadersAre DEF Grows, ReadsMove
    <3> QED BY <1>7, <3>1 DEF ShownOk
  <2> QED BY <2>1, <2>2
<1> QED BY <1>4, <1>5, <1>6, <1>7 DEF ShownOk, Older

LEMMA WrittenStill ==
  ASSUME NEW a \in Table, NEW b \in Table, Older(a, b), NEW w \in Workstreams, NEW n \in Nat
  PROVE  /\ a[w] # None /\ n < a[w].rev => b[w] # None /\ n < b[w].rev
         /\ a[w] # None /\ n <= a[w].rev => b[w] # None /\ n <= b[w].rev
<1> SUFFICES ASSUME a[w] # None
             PROVE  b[w] # None /\ (n < a[w].rev => n < b[w].rev) /\ (n <= a[w].rev => n <= b[w].rev)
  OBVIOUS
<1>1. b[w] # None /\ a[w].rev <= b[w].rev
  BY DEF Older
<1>2. a[w].rev \in Nat /\ b[w].rev \in Nat
  BY <1>1 DEF Table, Row
<1> QED BY <1>1, <1>2

LEMMA TargetIs ==
  ASSUME UIOk, writer.kind # "none"
  PROVE  Target \in Workstreams /\ Before \in Nat
<1>1. writer.kind = "status" => dialog \in DialogOf
  BY DialogIs DEF UIOk, ControlOk, Results
<1> QED BY <1>1, SceneUI DEF UIOk, Target, Before, DialogOf

LEMMA DialogKept ==
  ASSUME UIOk, UIOk', StoreOk, DialogTrue, Grows,
         dialog'.state # "none" => /\ dialog.state # "none" /\ dialog'.ws = dialog.ws
                                   /\ dialog'.rev = dialog.rev
  PROVE  DialogTrue'
<1> SUFFICES ASSUME dialog'.state # "none"
             PROVE  record'[dialog'.ws] # None /\ dialog'.rev <= record'[dialog'.ws].rev
  BY DEF DialogTrue
<1>1. dialog \in DialogOf
  BY DialogIs DEF UIOk
<1>2. dialog.ws \in Workstreams /\ dialog.rev \in Nat
  BY <1>1 DEF DialogOf
<1>3. record[dialog.ws] # None /\ dialog.rev <= record[dialog.ws].rev
  BY DEF DialogTrue
<1>4. record'[dialog.ws] # None /\ dialog.rev <= record'[dialog.ws].rev
  BY <1>2, <1>3, WrittenStill DEF StoreOk, Grows
<1> QED BY <1>4

LEMMA WriterKept ==
  ASSUME UIOk, UIOk', StoreOk, DialogTrue, WriterTrue, Grows,
         writer'.kind # "none" =>
            /\ writer'.kind = writer.kind /\ writer'.did = writer.did
            /\ writer'.changed = writer.changed
            /\ writer'.code = "ok" => writer.code = "ok" \/ writer.did,
         writer'.kind = "status" => dialog'.ws = dialog.ws /\ dialog'.rev = dialog.rev
  PROVE  WriterTrue'
<1> SUFFICES ASSUME writer'.kind # "none"
             PROVE  /\ writer'.changed => /\ writer'.did /\ Written(record)'
                                          /\ Looking("lookup")' => Written(reads["lookup"].records)'
                    /\ writer'.kind = "create" /\ writer'.did => writer'.changed
                    /\ writer'.code = "ok" => writer'.did
  BY DEF WriterTrue
<1>1. PICK t \in Workstreams, n \in Nat : t = Target /\ n = Before
  BY TargetIs
<1>2. Target' = t /\ Before' = n
  BY <1>1 DEF Target, Before, Grows
<1>3. ASSUME writer'.changed
      PROVE  /\ record'[t] # None /\ n < record'[t].rev
             /\ Looking("lookup")' => /\ reads'["lookup"].records[t] # None
                                      /\ n < reads'["lookup"].records[t].rev
  <2>1. /\ record[t] # None /\ n < record[t].rev
        /\ Looking("lookup") => /\ reads["lookup"].records[t] # None
                                /\ n < reads["lookup"].records[t].rev
    BY <1>1, <1>3 DEF WriterTrue, Written
  <2>2. record'[t] # None /\ n < record'[t].rev
    BY <2>1, WrittenStill DEF StoreOk, Grows
  <2> QED BY <2>1, <2>2, ReadersAre DEF Grows, ReadsMove
<1> QED BY <1>2, <1>3 DEF WriterTrue, Written

LEMMA ResultKept ==
  ASSUME UIOk', ResultTrue, Older(record, record'), UNCHANGED scene, scene.named \in Workstreams,
         writer'.kind # "none" => writer'.changed = writer.changed,
         dialog'.state \in {"cancelled", "failed"} => dialog.state = dialog'.state,
         creation' \in {"cancelled", "failed", "created", "found"} => creation = creation'
  PROVE  ResultTrue'
<1>1. dialog'.state \in {"cancelled", "failed"} => writer'.kind # "none"
  BY DEF UIOk, ControlOk, Results
<1>2. creation' \in {"cancelled", "failed", "created"} => writer'.kind # "none"
  BY DEF UIOk, ControlOk, Made, Results
<1>3. record[scene.named] # None => record'[scene.named] # None
  BY DEF Older
<1> QED BY <1>1, <1>2, <1>3 DEF ResultTrue

LEMMA WroteKept ==
  ASSUME UIOk, UIOk', StoreOk, WroteOk, Grows,
         dialog'.state # "none" => /\ dialog.state # "none" /\ dialog'.ws = dialog.ws
                                   /\ dialog'.rev = dialog.rev,
         dialog'.state \in {"cancelled", "failed"} => dialog.state = dialog'.state,
         creation' \in {"cancelled", "failed", "created", "found"} => creation = creation',
         writer'.kind # "none" =>
            /\ writer'.kind = writer.kind /\ writer'.did = writer.did
            /\ writer'.changed = writer.changed
            /\ writer'.code = "ok" => writer.code = "ok" \/ writer.did
  PROVE  WroteOk'
<1>1. DialogTrue'
  BY DialogKept DEF WroteOk
<1>2. writer'.kind = "status" => dialog'.state # "none"
  BY DEF UIOk, ControlOk, Results
<1>3. WriterTrue'
  BY <1>2, WriterKept DEF WroteOk
<1>4. ResultTrue'
  BY ResultKept, SceneUI DEF WroteOk, Grows, UIOk
<1> QED BY <1>1, <1>3, <1>4 DEF WroteOk

LEMMA MotionSynced ==
  ASSUME SyncMotionTimer
  PROVE  MotionOk'
BY DEF SyncMotionTimer, MotionOk

(* The same scene goes on. *)
LEMMA MotionSame ==
  ASSUME MotionOk, UNCHANGED <<closed, ui, startup, shown, scene, motion>>,
         film' = None <=> film = None, dialog'.state = dialog.state,
         Coming /\ motion = "none" /\ WantedMotionScene # "none" => Coming'
  PROVE  MotionOk'
<1>1. WantedMotionScene' = WantedMotionScene
  BY DEF WantedMotionScene, Live, Framed, Galloping
<1> QED BY <1>1 DEF MotionOk

Shows == ShownOk /\ WroteOk /\ MotionOk
Holds == UIOk /\ StoreOk /\ Shows

LEMMA StillGrows ==
  ASSUME StoreOk, UNCHANGED catalogueVars
  PROVE  Grows /\ \A r \in Readers : Looking(r)' <=> Looking(r)
BY OlderSame DEF Grows, ReadsMove, StoreOk, catalogueVars, Looking

(* The reads, the sessions and other command lines *)
LEMMA OutsideShows ==
  ASSUME Holds, UIOk', Grows, UNCHANGED uiVars, \A r \in Readers : Looking(r)' <=> Looking(r)
  PROVE  Shows'
<1>1. ShownOk'
  BY ShownKept, ReadersAre DEF Holds, Shows, uiVars, Counts
<1>2. WroteOk'
  BY WroteKept DEF Holds, Shows, uiVars
<1>3. MotionOk'
  BY MotionSame DEF Holds, Shows, uiVars, Grows, Coming
<1> QED BY <1>1, <1>2, <1>3 DEF Shows

LEMMA AskedComes ==
  ASSUME UIOk, NEW mode \in Modes, rd' = Asked(rd, mode)
  PROVE  Coming' /\ (Counts' => Counts)
<1>1. rd \in RefreshOf /\ rd.at <= rd.gen
  BY DEF UIOk, TypesOk
<1>2. \/ rd'.queued /\ rd'.stage = rd.stage /\ rd'.at = rd.at /\ rd'.gen = rd.gen
         /\ rd'.overtaken = rd.overtaken
      \/ rd'.stage = "health" /\ rd'.at = rd'.gen
  BY <1>1, AskedIs
<1> QED BY <1>2 DEF Coming, Counts

LEMMA AskedShows ==
  ASSUME Holds, UIOk', NEW mode \in Modes, rd' = Asked(rd, mode),
         UNCHANGED <<catalogueVars, ui, shown, startup, dialog, film, creation, writer,
                     motion, closed>>
  PROVE  Shows'
<1>1. Coming' /\ (Counts' => Counts)
  BY AskedComes DEF Holds
<1>2. Grows /\ (Looking("lookup")' <=> Looking("lookup"))
  BY StillGrows, ReadersAre DEF Holds
<1>3. ShownOk'
  BY <1>1, <1>2, ShownKept DEF Holds, Shows
<1>4. WroteOk'
  BY <1>2, WroteKept DEF Holds, Shows
<1>5. MotionOk'
  BY <1>1, <1>2, MotionSame DEF Holds, Shows, Grows
<1> QED BY <1>3, <1>4, <1>5 DEF Shows

(* A page turns, a dialog or a form closes. *)
LEMMA TurnShows ==
  ASSUME Holds, UIOk', SyncMotionTimer, UNCHANGED <<catalogueVars, shown, rd>>,
         dialog' = dialog \/ dialog'.state = "none",
         creation' = creation \/ creation' \in {"none", "form"},
         writer' = writer \/ writer'.kind = "none"
  PROVE  Shows'
<1>1. Grows /\ (Looking("lookup")' <=> Looking("lookup"))
  BY StillGrows, ReadersAre DEF Holds
<1>2. ShownOk'
  BY <1>1, ShownKept DEF Holds, Shows, Counts
<1>3. WroteOk'
  BY <1>1, WroteKept DEF Holds, Shows
<1>4. MotionOk'
  BY MotionSynced
<1> QED BY <1>2, <1>3, <1>4 DEF Shows

LEMMA BeginLifecycleShows ==
  ASSUME Holds, UIOk', dialog.state = "none", creation = "none", BeginSelectedLifecycle
  PROVE  Shows'
<1>1. PICK w \in Selectable :
         dialog' = [state |-> "confirm", ws |-> w, status |-> shown.records[w].status,
                    rev |-> shown.records[w].rev, cancelled |-> FALSE, warns |-> FALSE,
                    mode |-> ui.mode, filter |-> ui.filter]
  BY DEF BeginSelectedLifecycle
<1>2. UNCHANGED <<catalogueVars, ui, shown, rd, startup, film, creation, writer>> /\ SyncMotionTimer
  BY DEF BeginSelectedLifecycle
<1>3. Grows /\ (Looking("lookup")' <=> Looking("lookup"))
  BY <1>2, StillGrows, ReadersAre DEF Holds
<1>4. ShownOk'
  BY <1>2, <1>3, ShownKept DEF Holds, Shows, Counts
<1>5. w \in Workstreams /\ shown # None /\ shown.records[w] # None
  BY SelectableIs DEF Holds
<1>6. record[w] # None /\ shown.records[w].rev <= record[w].rev
  BY <1>5 DEF Holds, Shows, ShownOk, Older
<1>7. dialog'.state = "confirm" /\ dialog'.ws = w /\ dialog'.rev = shown.records[w].rev
      /\ record' = record
  BY <1>1, <1>2 DEF catalogueVars
<1>8. DialogTrue'
  BY <1>6, <1>7 DEF DialogTrue
<1>9. writer'.kind = "none"
  <2>1. dialog'.state \notin Results \union {"pending"} /\ "none" \notin Made \union {"pending"}
    BY <1>7 DEF Results, Made
  <2>2. writer'.kind # "status" /\ writer'.kind # "create"
    BY <1>2, <2>1 DEF UIOk, ControlOk
  <2> QED BY <2>2 DEF UIOk, TypesOk, WriterOf, NoWriter
<1>10. WriterTrue' /\ ResultTrue'
  BY <1>2, <1>7, <1>9 DEF WriterTrue, ResultTrue
<1> QED BY <1>2, <1>4, <1>8, <1>10, MotionSynced DEF Shows, WroteOk

LEMMA NewWriterTrue ==
  ASSUME NEW kind \in {"status", "create"}, writer' = NewWriter(kind)
  PROVE  WriterTrue' /\ ~writer'.changed
<1>1. ~writer'.did /\ ~writer'.changed /\ writer'.code = "none"
  BY NewWriterIs
<1> QED BY <1>1 DEF WriterTrue

LEMMA StartLifecycleShows ==
  ASSUME Holds, UIOk', StartLifecycleWriter
  PROVE  Shows'
<1>1. /\ dialog.state = "confirm" /\ dialog' = [dialog EXCEPT !.state = "pending"]
      /\ rd' = Invalidated(rd) /\ writer' = NewWriter("status")
      /\ UNCHANGED <<catalogueVars, ui, shown, startup, creation>> /\ SyncMotionTimer
  BY DEF StartLifecycleWriter
<1>2. Grows /\ (Looking("lookup")' <=> Looking("lookup"))
  BY <1>1, StillGrows, ReadersAre DEF Holds
<1>3. rd \in RefreshOf /\ rd.at <= rd.gen
  BY DEF Holds, UIOk, TypesOk
<1>4. rd'.gen = rd.gen + 1 /\ rd'.at = rd.at /\ rd.at \in Nat /\ rd.gen \in Nat
  BY <1>1, <1>3, InvalidatedIs DEF RefreshOf
<1>5. ~Counts'
  BY <1>3, <1>4 DEF Counts
<1>6. ~Looking("lookup") /\ creation = "none"
  BY <1>1 DEF Holds, UIOk, ControlOk
<1>7. ShownOk'
  BY <1>1, <1>2, <1>5, <1>6, ShownKept DEF Holds, Shows
<1>8. dialog'.state = "pending" /\ dialog'.ws = dialog.ws /\ dialog'.rev = dialog.rev
  BY <1>1, DialogIs DEF Holds, UIOk, DialogOf
<1>9. DialogTrue'
  BY <1>1, <1>2, <1>8, DialogKept DEF Holds, Shows, WroteOk
<1>10. WriterTrue' /\ ~writer'.changed
  BY <1>1, NewWriterTrue
<1>11. ResultTrue'
  BY <1>1, <1>6, <1>8, <1>10 DEF ResultTrue
<1> QED BY <1>1, <1>7, <1>9, <1>10, <1>11, MotionSynced DEF Shows, WroteOk

LEMMA StartWriterShows ==
  ASSUME Holds, UIOk', creation = "form", StartWriter, UNCHANGED closed
  PROVE  Shows'
<1>1. /\ creation' = "pending" /\ writer' = NewWriter("create")
      /\ UNCHANGED <<catalogueVars, ui, shown, rd, startup, dialog, film, motion>>
  BY DEF StartWriter
<1>2. Grows /\ (Looking("lookup")' <=> Looking("lookup"))
  BY <1>1, StillGrows, ReadersAre DEF Holds
<1>3. writer'.kind = "create"
  BY <1>1, NewWriterIs
<1>4. ShownOk'
  BY <1>1, <1>2, <1>3, ShownKept DEF Holds, Shows, Counts
<1>5. DialogTrue'
  BY <1>1, <1>2, DialogKept DEF Holds, Shows, WroteOk
<1>6. WriterTrue' /\ ~writer'.changed
  BY <1>1, NewWriterTrue
<1>7. ResultTrue'
  BY <1>1, <1>6 DEF ResultTrue
<1>8. MotionOk'
  BY <1>1, <1>2, MotionSame DEF Holds, Shows, Grows, Coming
<1> QED BY <1>4, <1>5, <1>6, <1>7, <1>8 DEF Shows, WroteOk

LEMMA CancelShows ==
  ASSUME Holds, UIOk', UNCHANGED closed,
         \/ dialog.state = "pending" /\ CancelLifecycle
         \/ creation = "pending" /\ CancelCreate
  PROVE  Shows'
<1>1. /\ UNCHANGED <<catalogueVars, ui, shown, rd, startup, film, creation, motion>>
      /\ dialog'.state = dialog.state /\ writer.kind # "none"
      /\ dialog'.state # "none" => dialog'.ws = dialog.ws /\ dialog'.rev = dialog.rev
  <2>1. CASE dialog.state = "pending" /\ CancelLifecycle
    <3>1. dialog \in DialogOf
      BY <2>1, DialogIs DEF Holds, UIOk
    <3> QED BY <2>1, <3>1 DEF CancelLifecycle, DialogOf, Holds, UIOk, ControlOk
  <2>2. CASE creation = "pending" /\ CancelCreate
    BY <2>2 DEF CancelCreate, Holds, UIOk, ControlOk
  <2> QED BY <2>1, <2>2
<1>2. writer \in WriterOf
  BY <1>1, WriterIs DEF Holds, UIOk
<1>3. /\ writer'.kind = writer.kind /\ writer'.did = writer.did
      /\ writer'.changed = writer.changed /\ writer'.code = writer.code
  BY <1>2 DEF CancelLifecycle, CancelCreate, WriterOf
<1>4. Grows /\ (Looking("lookup")' <=> Looking("lookup"))
  BY <1>1, StillGrows, ReadersAre DEF Holds
<1>5. ShownOk'
  BY <1>1, <1>3, <1>4, ShownKept DEF Holds, Shows, Counts
<1>6. WroteOk'
  BY <1>1, <1>3, <1>4, WroteKept DEF Holds, Shows
<1>7. MotionOk'
  BY <1>1, <1>4, MotionSame DEF Holds, Shows, Grows, Coming
<1> QED BY <1>5, <1>6, <1>7 DEF Shows

(* The store goes forward. *)
LEMMA SetStatusIs ==
  ASSUME record \in Table, scene \in Scenes, NEW w \in Workstreams, record[w] # None,
         NEW status \in Statuses, SetStatus(w, status)
  PROVE  /\ record' \in Table /\ Older(record, record') /\ record'[w] # None
         /\ record' # record => record[w].rev < record'[w].rev
<1>1. record[w] \in Row /\ record[w].rev \in Nat /\ None \notin Row
  BY SceneIs DEF Table, Row
<1> DEFINE n == IF record[w].status = status THEN record[w]
                ELSE [status |-> status, rev |-> record[w].rev + 1]
<1>2. record' = [record EXCEPT ![w] = n]
  BY DEF SetStatus
<1>3. n \in Row /\ record[w].rev <= n.rev /\ (n = record[w] \/ record[w].rev < n.rev)
  BY <1>1 DEF Row, Statuses
<1> HIDE DEF n
<1>4. record'[w] = n /\ record' \in Table /\ n # None
  BY <1>1, <1>2, <1>3 DEF Table
<1>5. ASSUME NEW v \in Workstreams, record[v] # None
      PROVE  record'[v] # None /\ record[v].rev <= record'[v].rev
  <2>1. CASE v = w
    BY <1>3, <1>4, <2>1
  <2>2. CASE v # w
    <3>1. record'[v] = record[v]
      BY <1>2, <2>2 DEF Table
    <3>2. record[v].rev \in Nat
      BY <1>5 DEF Table, Row
    <3> QED BY <1>5, <3>1, <3>2
  <2> QED BY <2>1, <2>2
<1>6. record' # record => n # record[w]
  BY <1>2 DEF Table
<1> QED BY <1>3, <1>4, <1>5, <1>6 DEF Older

LEMMA CreateIs ==
  ASSUME record \in Table, scene \in Scenes, NEW w \in Workstreams, CreateWorkstream(w)
  PROVE  /\ record' \in Table /\ Older(record, record') /\ record'[w] # None
         /\ record' # record /\ 0 < record'[w].rev
<1> DEFINE n == [status |-> "open", rev |-> 1]
<1>1. n \in Row /\ n # None /\ 0 < n.rev
  BY SceneIs DEF Row
<1>2. record[w] = None /\ record' = [record EXCEPT ![w] = n]
  BY DEF CreateWorkstream
<1> HIDE DEF n
<1>3. record'[w] = n /\ record' \in Table
  BY <1>1, <1>2 DEF Table
<1>4. ASSUME NEW v \in Workstreams, record[v] # None
      PROVE  record'[v] # None /\ record[v].rev <= record'[v].rev
  <2>1. record'[v] = record[v]
    BY <1>2, <1>4 DEF Table
  <2>2. record[v].rev \in Nat
    BY <1>4 DEF Table, Row
  <2> QED BY <1>4, <2>1, <2>2
<1> QED BY <1>1, <1>2, <1>3, <1>4 DEF Older

LEMMA WriterActsShows ==
  ASSUME Holds, UIOk', WriterActs
  PROVE  Shows' /\ record' \in Table
<1>1. /\ writer.kind # "none" /\ writer.running
      /\ UNCHANGED <<scene, session, clock, spent, reads, since, ui, shown, rd, startup,
                     dialog, film, creation, motion, closed>>
  BY DEF WriterActs
<1>2. PICK c \in BOOLEAN : c = (record' # record)
  OBVIOUS
<1>3. writer \in WriterOf /\ record \in Table /\ scene \in Scenes
  BY <1>1, WriterIs DEF Holds, UIOk, StoreOk
<1>4. writer' = [writer EXCEPT !.did = TRUE, !.changed = c]
  BY <1>2 DEF WriterActs
<1>5. /\ writer'.kind = writer.kind /\ writer'.did /\ writer'.changed = c
  BY <1>3, <1>4 DEF WriterOf
<1>6. PICK t \in Workstreams, n \in Nat : t = Target /\ n = Before
  BY <1>1, TargetIs DEF Holds
<1>7. /\ record' \in Table /\ Older(record, record')
      /\ record' # record => record'[t] # None /\ n < record'[t].rev
      /\ writer.kind = "create" => record' # record
  <2>1. CASE writer.kind = "status"
    <3>1. dialog \in DialogOf /\ t = dialog.ws /\ n = dialog.rev
      BY <1>6, <2>1, DialogIs DEF Holds, UIOk, ControlOk, Results, Target, Before
    <3>2. Desired(dialog.status) \in Statuses
      BY DEF Desired, Statuses
    <3>3. record[t] # None /\ n <= record[t].rev
      BY <3>1 DEF Holds, Shows, WroteOk, DialogTrue, DialogOf, Results
    <3>4. SetStatus(t, Desired(dialog.status))
      BY <2>1, <3>1 DEF WriterActs
    <3>5. /\ record' \in Table /\ Older(record, record') /\ record'[t] # None
          /\ record' # record => record[t].rev < record'[t].rev
      BY <1>3, <3>2, <3>3, <3>4, SetStatusIs
    <3>6. record[t].rev \in Nat /\ record'[t].rev \in Nat
      BY <1>3, <3>3, <3>5 DEF Table, Row
    <3> QED BY <2>1, <3>3, <3>5, <3>6
  <2>2. CASE writer.kind = "create"
    <3>1. t = scene.named /\ n = 0 /\ CreateWorkstream(t)
      BY <1>6, <2>2 DEF Target, Before, WriterActs
    <3> QED BY <1>3, <3>1, CreateIs
  <2> QED BY <1>1, <1>3, <2>1, <2>2 DEF WriterOf
<1>8. Grows /\ (Looking("lookup")' <=> Looking("lookup"))
  BY <1>1, <1>7 DEF Grows, ReadsMove, Looking
<1>9. ShownOk'
  BY <1>1, <1>5, <1>8, ShownKept DEF Holds, Shows, Counts
<1>10. DialogTrue'
  BY <1>1, <1>8, DialogKept DEF Holds, Shows, WroteOk
<1>11. ~Looking("lookup") /\ (dialog.state = "pending" \/ creation = "pending")
  BY <1>1 DEF Holds, UIOk, ControlOk
<1>12. WriterTrue'
  <2>1. Target' = t /\ Before' = n
    BY <1>1, <1>5, <1>6 DEF Target, Before
  <2>2. c => record'[t] # None /\ n < record'[t].rev
    BY <1>2, <1>7
  <2>3. writer.kind = "create" => c
    BY <1>2, <1>7
  <2> QED BY <1>5, <1>8, <1>11, <2>1, <2>2, <2>3 DEF WriterTrue, Written
<1>13. ResultTrue'
  BY <1>1, <1>11 DEF ResultTrue, Holds, UIOk, ControlOk
<1>14. MotionOk'
  BY <1>1, MotionSame DEF Holds, Shows, Coming
<1> QED BY <1>7, <1>9, <1>10, <1>12, <1>13, <1>14 DEF Shows, WroteOk

LEMMA WriterEndsShows ==
  ASSUME Holds, UIOk', NEW code \in {"ok", "error", "none"},
         NEW warns \in BOOLEAN, WriterEnds(code, warns)
  PROVE  Shows'
<1>1. /\ writer.kind # "none" /\ writer.running /\ (code = "ok" => writer.did)
      /\ writer' = [writer EXCEPT !.running = FALSE, !.held = FALSE,
                                  !.code = code, !.warns = warns]
      /\ film' = (IF film = None THEN None ELSE [film EXCEPT !.phase = "reconcile"])
      /\ UNCHANGED <<scene, record, session, clock, spent, ui, shown, rd, startup, dialog,
                     creation, motion, closed>>
      /\ Begin("lookup")
  BY DEF WriterEnds
<1>2. /\ writer'.kind = writer.kind /\ writer'.did = writer.did
      /\ writer'.changed = writer.changed /\ writer'.code = code
  BY <1>1, WriterIs DEF Holds, UIOk, WriterOf
<1>3. /\ reads'["lookup"].records = record /\ reads'["refresh"] = reads["refresh"]
  BY <1>1 DEF Begin, NewReading, Holds, StoreOk, Readers
<1>4. Grows
  BY <1>1, <1>3, OlderSame DEF Grows, ReadsMove, Holds, StoreOk, Looking, Readers
<1>5. ShownOk'
  BY <1>1, <1>3, <1>4, ShownKept DEF Holds, Shows, Counts
<1>6. WroteOk'
  BY <1>1, <1>2, <1>4, WroteKept DEF Holds, Shows
<1>7. film' = None <=> film = None
  <2>1. film # None => [film EXCEPT !.phase = "reconcile"] \in FilmOf
    BY DEF Holds, UIOk, TypesOk, FilmOf
  <2> QED BY <1>1, <2>1, SceneUI DEF Holds, UIOk
<1>8. MotionOk'
  BY <1>1, <1>7, MotionSame DEF Holds, Shows, Coming
<1> QED BY <1>5, <1>6, <1>8 DEF Shows

(* What is looked up is not later than the store. *)
LEMMA ProjectionOlder ==
  ASSUME Holds, NEW r \in Readers, Looking(r)
  PROVE  /\ reads[r] \in Reading /\ Older(Projection(reads[r]).records, record)
         /\ Projection(reads[r]).refused = reads[r].refused
         /\ ~reads[r].refused => Projection(reads[r]).records = reads[r].records
<1>1. reads[r] \in Reading /\ reads[r].refused \in BOOLEAN
  BY DEF Holds, StoreOk, Reading
<1>2. CASE reads[r].refused
  BY <1>1, <1>2, ProjectionIs, OlderNone
<1>3. CASE ~reads[r].refused
  BY <1>1, <1>3, ProjectionIs DEF Holds, Shows, ShownOk
<1> QED BY <1>1, <1>2, <1>3, ProjectionIs

(* A result that says nothing was done is right: what was looked up is as it was. *)
LEMMA SettledTrue ==
  ASSUME Holds, Settling("status"), NEW found, SettleLifecycle(found) \in {"cancelled", "failed"},
         found # None => ~reads["lookup"].refused /\ found = reads["lookup"].records[dialog.ws]
  PROVE  ~writer.changed
<1>1. found # None /\ found.rev = dialog.rev
  BY DEF SettleLifecycle
<1>2. found = reads["lookup"].records[dialog.ws] /\ Looking("lookup") /\ writer.kind = "status"
  BY <1>1 DEF Settling, Looking
<1>3. Target = dialog.ws /\ Before = dialog.rev
  BY <1>2 DEF Target, Before
<1>4. writer.changed => found # None /\ dialog.rev < found.rev
  BY <1>2, <1>3 DEF Holds, Shows, WroteOk, WriterTrue, Written
<1>5. dialog.rev \in Nat
  BY <1>3, <1>2, TargetIs DEF Holds
<1> QED BY <1>1, <1>4, <1>5

LEMMA FinishLifecycleShows ==
  ASSUME Holds, UIOk', NEW read \in BOOLEAN, FinishLifecycle(read)
  PROVE  Shows'
<1> PICK seen : seen = IF read THEN Projection(reads["lookup"]) ELSE shown
  OBVIOUS
<1> PICK found : found = IF read /\ ~seen.refused THEN seen.records[dialog.ws] ELSE None
  OBVIOUS
<1> PICK state \in Results : state = SettleLifecycle(found)
  BY SettleIs
<1> PICK settled : settled = [dialog EXCEPT !.state = state, !.warns = writer.warns]
  OBVIOUS
<1> PICK over \in BOOLEAN :
      over = (state = "confirmed" /\ (film # None /\ film.ticks = PassTicks) /\ ~writer.warns)
  OBVIOUS
<1>1. /\ Settling("status") /\ Forget("lookup") /\ UNCHANGED <<scene, record, session, clock>>
      /\ shown' = seen
      /\ dialog' = (IF over THEN NoDialog ELSE settled)
      /\ writer' = (IF over THEN NoWriter ELSE writer)
      /\ rd' = Served([rd EXCEPT !.lock = FALSE], ui'.mode)
      /\ UNCHANGED <<startup, creation>> /\ SyncMotionTimer
  BY DEF FinishLifecycle, Reconciled, EndLifecycle
<1>2. /\ writer.kind = "status" /\ ~writer.running /\ Looking("lookup")
  BY <1>1 DEF Settling, Looking
<1>3. dialog.state = "pending" /\ creation = "none" /\ rd.lock /\ dialog \in DialogOf
  BY <1>2, DialogIs DEF Holds, UIOk, ControlOk, Results
<1>4. writer.warns \in BOOLEAN
  BY <1>2, WriterIs DEF Holds, UIOk, WriterOf
<1>5. settled.state = state /\ settled.ws = dialog.ws /\ settled.rev = dialog.rev
  BY <1>3 DEF DialogOf
<1>6. ~Looking("lookup")' /\ reads'["refresh"] = reads["refresh"]
  BY <1>1 DEF Forget, Looking, Holds, StoreOk, Readers
<1>7. Grows
  BY <1>1, <1>6, OlderSame DEF Grows, ReadsMove, Holds, StoreOk, Looking, Readers
<1>8. ~Counts'
  <2>1. rd \in RefreshOf /\ rd.at <= rd.gen /\ (rd.stage # "idle" => rd.at < rd.gen)
    BY <1>3 DEF Holds, UIOk, TypesOk, ControlOk
  <2>2. PICK mode \in Modes : mode = ui'.mode
    BY DEF UIOk, TypesOk, UIOf
  <2>3. /\ rd'.stage \in {"catalogue", "context"} => rd.stage \in {"catalogue", "context"}
        /\ rd.stage # "idle" => rd'.at = rd.at /\ rd'.gen = rd.gen
    BY <1>1, <2>1, <2>2, FreedIs
  <2>4. rd.at \in Nat /\ rd.gen \in Nat
    BY <2>1 DEF RefreshOf
  <2> QED BY <2>1, <2>3, <2>4 DEF Counts
<1>9. shown' # None => Older(shown'.records, record')
  BY <1>1, <1>2, ProjectionOlder, ReadersAre DEF Holds, Shows, ShownOk
<1>10. ShownOk'
  <2>1. ASSUME NEW r \in Readers, Looking(r)' PROVE Older(reads'[r].records, record')
    BY <1>1, <1>6, <2>1 DEF Readers, Looking, Holds, Shows, ShownOk
  <2> QED BY <1>6, <1>8, <1>9, <2>1 DEF ShownOk
<1>11. DialogTrue'
  BY <1>1, <1>3, <1>5, <1>7, DialogKept DEF Holds, Shows, WroteOk, NoDialog
<1>12. WriterTrue'
  BY <1>1, <1>5, <1>7, WriterKept DEF Holds, Shows, WroteOk, NoWriter
<1>13. state \in {"cancelled", "failed"} => ~writer.changed
  <2>1. found # None => ~reads["lookup"].refused /\ found = reads["lookup"].records[dialog.ws]
    BY <1>2, ProjectionOlder, ReadersAre
  <2> QED BY <1>1, <2>1, SettledTrue
<1>14. ResultTrue'
  <2>1. dialog'.state \in {"cancelled", "failed"} => writer' = writer /\ state = dialog'.state
    BY <1>1, <1>5 DEF NoDialog
  <2> QED BY <1>1, <1>3, <1>13, <2>1 DEF ResultTrue
<1> QED BY <1>1, <1>10, <1>11, <1>12, <1>14, MotionSynced DEF Shows, WroteOk

LEMMA FinishCreateShows ==
  ASSUME Holds, UIOk', NEW read \in BOOLEAN, FinishCreate(read)
  PROVE  Shows' /\ creation' # creation
<1> PICK seen : seen = IF read THEN Projection(reads["lookup"]) ELSE shown
  OBVIOUS
<1> PICK found : found = IF read THEN seen.records[scene.named] ELSE None
  OBVIOUS
<1> PICK refused : refused = (read /\ seen.refused)
  OBVIOUS
<1>1. /\ Settling("create") /\ Forget("lookup") /\ UNCHANGED <<scene, record, session, clock>>
      /\ shown' = seen /\ creation' = SettleCreate(read, refused, found)
      /\ rd' = [rd EXCEPT !.overtaken = @ \/ read]
      /\ UNCHANGED <<ui, startup, dialog, film, writer, motion, closed>>
  BY DEF FinishCreate, Reconciled
<1>2. /\ writer.kind = "create" /\ ~writer.running /\ Looking("lookup")
  BY <1>1 DEF Settling, Looking
<1>3. creation = "pending" /\ dialog.state = "none" /\ film = None /\ ui.mode = Home
  BY <1>2 DEF Holds, UIOk, ControlOk, Results
<1>4. ~Looking("lookup")' /\ reads'["refresh"] = reads["refresh"]
  BY <1>1 DEF Forget, Looking, Holds, StoreOk, Readers
<1>5. Grows
  BY <1>1, <1>4, OlderSame DEF Grows, ReadsMove, Holds, StoreOk, Looking, Readers
<1>6. /\ rd'.stage = rd.stage /\ rd'.at = rd.at /\ rd'.gen = rd.gen
      /\ rd'.queued = rd.queued
      /\ read => rd'.overtaken
      /\ ~read => rd'.overtaken = rd.overtaken
  <2>1. rd \in RefreshOf
    BY DEF Holds, UIOk, TypesOk
  <2>2. PICK c \in BOOLEAN : c = (rd.overtaken \/ read)
    OBVIOUS
  <2>3. rd' = [rd EXCEPT !.overtaken = c]
    BY <1>1, <2>2
  <2>4. ~read => c = rd.overtaken
    BY <2>1, <2>2 DEF RefreshOf
  <2> QED BY <2>1, <2>2, <2>3, <2>4 DEF RefreshOf
<1>7. shown' # None => Older(shown'.records, record')
  BY <1>1, <1>2, ProjectionOlder, ReadersAre DEF Holds, Shows, ShownOk
<1>8. ShownOk'
  <2>1. ASSUME NEW r \in Readers, Looking(r)' PROVE Older(reads'[r].records, record')
    BY <1>1, <1>4, <2>1 DEF Readers, Looking, Holds, Shows, ShownOk
  <2>2. Counts' /\ shown' # None => Older(shown'.records, reads'["refresh"].records)
    BY <1>1, <1>4, <1>6 DEF Counts, Holds, Shows, ShownOk
  <2> QED BY <1>4, <1>7, <2>1, <2>2 DEF ShownOk
<1>9. DialogTrue'
  BY <1>1, <1>3 DEF DialogTrue
<1>10. WriterTrue'
  BY <1>1, <1>2, <1>5, WriterKept DEF Holds, Shows, WroteOk
<1>11. creation' \in Made
  BY <1>1, SettleCreateIs
<1>12. Target = scene.named /\ Before = 0
  BY <1>2 DEF Target, Before
<1>13. /\ reads["lookup"] \in Reading
       /\ Projection(reads["lookup"]).refused = reads["lookup"].refused
       /\ ~reads["lookup"].refused
             => Projection(reads["lookup"]).records = reads["lookup"].records
       /\ Older(Projection(reads["lookup"]).records, record)
  BY <1>2, ProjectionOlder, ReadersAre
<1>14. ResultTrue'
  <2>1. CASE creation' = "created"
    <3>1. writer.code = "ok"
      BY <1>1, <2>1 DEF SettleCreate
    <3> QED BY <1>1, <1>2, <1>3, <2>1, <3>1 DEF Holds, Shows, WroteOk, WriterTrue, ResultTrue
  <2>2. CASE creation' = "found"
    <3>1. read /\ found # None
      BY <1>1, <2>2 DEF SettleCreate
    <3>2. record[scene.named] # None
      BY <1>13, <3>1, SceneUI DEF Older, Holds, UIOk
    <3> QED BY <1>1, <1>3, <2>2, <3>2 DEF ResultTrue
  <2>3. CASE creation' \in {"cancelled", "failed"}
    <3>1. read /\ ~refused /\ found = None
      BY <1>1, <2>3 DEF SettleCreate
    <3>2. reads["lookup"].records[scene.named] = None
      BY <1>13, <3>1
    <3>3. ~writer.changed
      BY <1>2, <1>12, <3>2 DEF Holds, Shows, WroteOk, WriterTrue, Written
    <3> QED BY <1>1, <1>3, <2>3, <3>3 DEF ResultTrue
  <2>4. CASE creation' \notin {"created", "found", "cancelled", "failed"}
    BY <1>1, <1>3, <2>4 DEF ResultTrue
  <2> QED BY <2>1, <2>2, <2>3, <2>4
<1>15. MotionOk'
  <2>1. WantedMotionScene = "none" /\ WantedMotionScene' = "none"
    BY <1>1, <1>3 DEF WantedMotionScene, Galloping
  <2> QED BY <1>1, <2>1 DEF MotionOk, Holds, Shows
<1>16. creation' # creation
  BY <1>3, <1>11 DEF Made, Results
<1> QED BY <1>8, <1>9, <1>10, <1>14, <1>15, <1>16 DEF Shows, WroteOk

LEMMA HealthShows ==
  ASSUME Holds, UIOk', ReadHealth
  PROVE  Shows'
<1>1. /\ rd.stage = "health" /\ rd' = [rd EXCEPT !.stage = "catalogue"] /\ Begin("refresh")
      /\ UNCHANGED <<scene, record, session, clock, spent, ui, shown, startup, dialog,
                     film, creation, writer, motion, closed>>
  BY DEF ReadHealth
<1>2. /\ rd'.stage = "catalogue" /\ rd'.at = rd.at /\ rd'.gen = rd.gen
      /\ rd'.queued = rd.queued
  BY <1>1 DEF Holds, UIOk, TypesOk, RefreshOf
<1>3. /\ reads'["refresh"].records = record /\ reads'["lookup"] = reads["lookup"]
  BY <1>1 DEF Begin, NewReading, Holds, StoreOk, Readers
<1>4. Grows /\ (Looking("lookup")' <=> Looking("lookup"))
  BY <1>1, <1>3, OlderSame DEF Grows, ReadsMove, Holds, StoreOk, Looking, Readers
<1>5. ShownOk'
  BY <1>1, <1>3, <1>4, ShownKept DEF Holds, Shows
<1>6. WroteOk'
  BY <1>1, <1>4, WroteKept DEF Holds, Shows
<1>7. MotionOk'
  BY <1>1, <1>2, MotionSame DEF Holds, Shows, Coming
<1> QED BY <1>5, <1>6, <1>7 DEF Shows

LEMMA ContextShows ==
  ASSUME Holds, UIOk', ReadContext
  PROVE  Shows'
<1>1. /\ rd.stage = "catalogue" /\ rd' = [rd EXCEPT !.stage = "context"]
      /\ UNCHANGED <<catalogueVars, ui, shown, startup, dialog, film, creation, writer, motion,
                     closed>>
  BY DEF ReadContext
<1>2. /\ rd'.stage = "context" /\ rd'.at = rd.at /\ rd'.gen = rd.gen
      /\ rd'.queued = rd.queued /\ rd'.overtaken = rd.overtaken
  BY <1>1 DEF Holds, UIOk, TypesOk, RefreshOf
<1>3. Grows /\ (Looking("lookup")' <=> Looking("lookup"))
  BY <1>1, StillGrows, ReadersAre DEF Holds
<1>4. ShownOk'
  BY <1>1, <1>2, <1>3, ShownKept DEF Holds, Shows, Counts
<1>5. WroteOk'
  BY <1>1, <1>3, WroteKept DEF Holds, Shows
<1>6. MotionOk'
  BY <1>1, <1>2, <1>3, MotionSame DEF Holds, Shows, Coming, Grows
<1> QED BY <1>4, <1>5, <1>6 DEF Shows

LEMMA StrideShows ==
  ASSUME Holds, UIOk', StrideDone
  PROVE  Shows'
<1>1. /\ startup.on /\ startup' = [startup EXCEPT !.stride = TRUE, !.on = ~startup.settled]
      /\ UNCHANGED <<catalogueVars, ui, shown, rd, dialog, film, creation, writer, closed>>
      /\ IF startup.settled THEN SyncMotionTimer ELSE UNCHANGED motion
  BY DEF StrideDone
<1>2. Grows /\ (Looking("lookup")' <=> Looking("lookup"))
  BY <1>1, StillGrows, ReadersAre DEF Holds
<1>3. ShownOk'
  BY <1>1, <1>2, ShownKept DEF Holds, Shows, Counts
<1>4. WroteOk'
  BY <1>1, <1>2, WroteKept DEF Holds, Shows
<1>5. CASE startup.settled
  BY <1>1, <1>3, <1>4, <1>5, MotionSynced DEF Shows
<1>6. CASE ~startup.settled
  <2>1. startup.on /\ startup'.on
    BY <1>1, <1>6 DEF Holds, UIOk, TypesOk, StartupOf
  <2>2. WantedMotionScene' = WantedMotionScene
    BY <1>1, <1>2, <2>1 DEF WantedMotionScene, Galloping, Live, Framed, Grows
  <2>3. MotionOk'
    BY <1>1, <1>6, <2>2 DEF MotionOk, Holds, Shows, Coming
  <2> QED BY <1>3, <1>4, <2>3 DEF Shows
<1> QED BY <1>5, <1>6

(* Only a film moves over a dialog, and nothing on the first page. *)
LEMMA NothingMoves ==
  ASSUME UIOk, dialog.state = "none", ui.mode = Home
  PROVE  film = None /\ WantedMotionScene = "none"
BY DEF UIOk, ControlOk, WantedMotionScene, Galloping

LEMMA OpenShows ==
  ASSUME Holds, UIOk', dialog.state = "none", Open, UNCHANGED closed
  PROVE  Shows'
<1>1. PICK w \in Selectable : ui' = [ui EXCEPT !.mode = w]
  BY DEF Open
<1>2. /\ ui.mode = Home /\ rd' = Asked(rd, ui'.mode)
      /\ UNCHANGED <<catalogueVars, shown, startup, dialog, film, creation, writer, motion>>
  BY DEF Open
<1>3. PICK mode \in Modes : mode = ui'.mode
  BY DEF UIOk, TypesOk, UIOf
<1>4. Coming' /\ (Counts' => Counts)
  BY <1>2, <1>3, AskedComes DEF Holds
<1>5. Grows /\ (Looking("lookup")' <=> Looking("lookup"))
  BY <1>2, StillGrows, ReadersAre DEF Holds
<1>6. ShownOk'
  BY <1>2, <1>4, <1>5, ShownKept DEF Holds, Shows
<1>7. WroteOk'
  BY <1>2, <1>5, WroteKept DEF Holds, Shows
<1>8. motion = "none"
  BY <1>2, NothingMoves DEF Holds, Shows, MotionOk
<1>9. MotionOk'
  BY <1>2, <1>4, <1>8 DEF MotionOk
<1> QED BY <1>6, <1>7, <1>9 DEF Shows

LEMMA CreateHelpShows ==
  ASSUME Holds, UIOk', creation # "none", ui' = [ui EXCEPT !.help = TRUE], UNCHANGED closed,
         UNCHANGED <<catalogueVars, shown, rd, startup, dialog, film, creation, writer, motion>>
  PROVE  Shows'
<1>1. dialog.state = "none" /\ ui.mode = Home /\ ui'.mode = Home /\ dialog'.state = "none"
  BY DEF Holds, UIOk, TypesOk, ControlOk, UIOf
<1>2. Grows /\ (Looking("lookup")' <=> Looking("lookup"))
  BY StillGrows, ReadersAre DEF Holds
<1>3. ShownOk'
  BY <1>2, ShownKept DEF Holds, Shows, Counts
<1>4. WroteOk'
  BY <1>2, WroteKept DEF Holds, Shows
<1>5. film = None /\ WantedMotionScene = "none"
  BY <1>1, NothingMoves DEF Holds
<1>6. WantedMotionScene' = "none"
  BY <1>1, <1>5 DEF WantedMotionScene, Galloping
<1>7. MotionOk'
  BY <1>1, <1>5, <1>6 DEF MotionOk, Holds, Shows
<1> QED BY <1>3, <1>4, <1>7 DEF Shows

LEMMA TickShows ==
  ASSUME Holds, UIOk', film # None, film' \in FilmOf, UNCHANGED closed,
         UNCHANGED <<catalogueVars, ui, shown, rd, startup, dialog, creation, writer, motion>>
  PROVE  Shows'
<1>1. Grows /\ (Looking("lookup")' <=> Looking("lookup"))
  BY StillGrows, ReadersAre DEF Holds
<1>2. ShownOk'
  BY <1>1, ShownKept DEF Holds, Shows, Counts
<1>3. WroteOk'
  BY <1>1, WroteKept DEF Holds, Shows
<1>4. film' # None
  BY SceneUI DEF Holds, UIOk
<1>5. MotionOk'
  BY <1>1, <1>4, MotionSame DEF Holds, Shows, Coming, Grows
<1> QED BY <1>2, <1>3, <1>5 DEF Shows

LEMMA FinishShows ==
  ASSUME Holds, UIOk', Finish
  PROVE  Shows'
<1>1. /\ closed' = TRUE /\ motion' = "none"
      /\ UNCHANGED <<catalogueVars, ui, shown, rd, startup, dialog, film, creation, writer>>
  BY DEF Finish
<1>2. Grows /\ (Looking("lookup")' <=> Looking("lookup"))
  BY <1>1, StillGrows, ReadersAre DEF Holds
<1>3. ShownOk'
  BY <1>1, <1>2, ShownKept DEF Holds, Shows, Counts
<1>4. WroteOk'
  BY <1>1, <1>2, WroteKept DEF Holds, Shows
<1>5. MotionOk'
  BY <1>1 DEF MotionOk, WantedMotionScene
<1> QED BY <1>3, <1>4, <1>5 DEF Shows

LEMMA EndRefreshShows ==
  ASSUME Holds, UIOk', rd.stage # "idle", Forget("refresh"), NEW ok \in BOOLEAN,
         UNCHANGED <<scene, record, session, clock>>, EndRefresh(ok),
         ok => Looking("refresh") /\ rd.stage \in {"catalogue", "context"}
  PROVE  Shows'
<1> PICK idle : idle = [rd EXCEPT !.stage = "idle"]
  OBVIOUS
<1>0. rd \in RefreshOf /\ rd.at <= rd.gen /\ rd.at \in Nat /\ rd.gen \in Nat /\ ui.mode \in Modes
  BY DEF Holds, UIOk, TypesOk, RefreshOf, UIOf
<1>1. /\ idle \in RefreshOf /\ idle.at = rd.at /\ idle.gen = rd.gen /\ idle.lock = rd.lock
      /\ idle.stage = "idle" /\ idle.queued = rd.queued /\ idle.at <= idle.gen
  BY <1>0 DEF RefreshOf
<1>2. /\ shown' = (IF rd.at = rd.gen /\ ok THEN Projection(reads["refresh"]) ELSE shown)
      /\ rd' = idle \/ rd' = Served(idle, ui.mode)
      /\ UNCHANGED <<ui, dialog, film, creation, writer, closed>>
      /\ IF rd.at = rd.gen THEN SyncMotionTimer ELSE UNCHANGED motion
      /\ rd.at # rd.gen => rd' = Served(idle, ui.mode) /\ startup' = startup
  BY DEF EndRefresh
<1>3. PICK e : e = Served(idle, ui.mode)
  OBVIOUS
<1>4. \/ (~idle.queued \/ idle.lock) /\ e = idle
      \/ idle.queued /\ ~idle.lock /\ e.stage = "health" /\ e.at = e.gen
  BY <1>0, <1>1, <1>3, ServedIs
<1>5. ~Counts'
  BY <1>1, <1>2, <1>3, <1>4 DEF Counts
<1>6. ~Looking("refresh")' /\ reads'["lookup"] = reads["lookup"]
  BY DEF Forget, Looking, Holds, StoreOk, Readers
<1>7. Grows
  BY <1>6, OlderSame DEF Grows, ReadsMove, Holds, StoreOk, Looking, Readers
<1>8. ShownOk'
  <2>1. shown' # None => Older(shown'.records, record')
    BY <1>2, ProjectionOlder, ReadersAre DEF Holds, Shows, ShownOk
  <2>2. ASSUME NEW r \in Readers, Looking(r)' PROVE Older(reads'[r].records, record')
    BY <1>6, <2>2 DEF Readers, Looking, Holds, Shows, ShownOk
  <2>3. ASSUME Looking("lookup")', writer'.kind = "status", shown' # None
        PROVE  Older(shown'.records, reads'["lookup"].records)
    <3>1. Looking("lookup") /\ writer.kind = "status"
      BY <1>2, <1>6, <2>3 DEF Looking
    <3>2. rd.lock /\ rd.at < rd.gen
      BY <3>1 DEF Holds, UIOk, ControlOk, Results
    <3>3. shown' = shown
      BY <1>0, <1>2, <3>2
    <3> QED BY <1>6, <2>3, <3>1, <3>3 DEF Holds, Shows, ShownOk
  <2> QED BY <1>5, <2>1, <2>2, <2>3 DEF ShownOk
<1>9. WroteOk'
  BY <1>2, <1>7, WroteKept DEF Holds, Shows
<1>10. MotionOk'
  <2>1. CASE rd.at = rd.gen
    BY <1>2, <2>1, MotionSynced
  <2>2. CASE rd.at # rd.gen
    <3>1. rd' = e /\ startup' = startup /\ shown' = shown /\ motion' = motion
      BY <1>2, <1>3, <2>2
    <3>2. Coming => Coming'
      <4>1. Coming => rd.queued
        BY <2>2 DEF Coming
      <4>2. rd.queued => Coming'
        BY <1>1, <1>4, <3>1 DEF Coming
      <4> QED BY <4>1, <4>2
    <3> QED BY <1>2, <3>1, <3>2, MotionSame DEF Holds, Shows
  <2> QED BY <2>1, <2>2
<1> QED BY <1>8, <1>9, <1>10 DEF Shows

-----------------------------------------------------------------------------
(* Every step keeps everything. *)

Inv == SessionsOk /\ ReadsOk /\ Holds

LEMMA StoreFollows ==
  ASSUME ReadsOk, record \in Table
  PROVE  StoreOk
<1>1. DOMAIN reads = Readers
  BY DEF ReadsOk
<1>2. ASSUME NEW r \in Readers, Looking(r) PROVE reads[r] \in Reading
  BY <1>2 DEF ReadsOk, ReadOk, Begun, Looking
<1> QED BY <1>1, <1>2 DEF StoreOk

LEMMA StoreLater == (ReadsOk /\ record \in Table)' => StoreOk'
<1>1. ReadsOk /\ record \in Table => StoreOk
  BY StoreFollows
<1> QED BY <1>1, PTL

LEMMA Keeps ==
  ASSUME SessionsOk', ReadsOk', record' \in Table, UIOk', Shows'
  PROVE  Inv'
<1>1. Table' = Table
  BY DEF Table, Row
<1>2. StoreOk'
  BY <1>1, StoreLater
<1> QED BY <1>2 DEF Inv, Holds

(* The readings and the sessions are left alone. *)
LEMMA Untouched ==
  ASSUME Inv, UNCHANGED catalogueVars
  PROVE  SessionsOk' /\ ReadsOk' /\ record' \in Table /\ UNCHANGED <<scene, reads>>
<1>1. UNCHANGED <<scene, record, session, clock, reads, since>>
  BY DEF catalogueVars
<1> QED BY <1>1, SameSessions, SameReads DEF Inv, Holds, StoreOk

LEMMA AdvanceKeeps ==
  ASSUME NEW u, NEW s, "records" \in DOMAIN u
  PROVE  "records" \in DOMAIN Advance(u, s) /\ Advance(u, s).records = u.records
<1> DEFINE next == Stages[(CHOOSE i \in DOMAIN Stages : Stages[i] = u.stage) + 1]
<1>1. \/ Advance(u, s) = [u EXCEPT !.todo = u.todo \ {s}]
      \/ Advance(u, s) = [u EXCEPT !.stage = "done", !.todo = {}]
      \/ Advance(u, s) = [u EXCEPT !.stage = next, !.todo = scene.sessions]
  BY DEF Advance
<1> HIDE DEF next
<1>2. CASE Advance(u, s) = [u EXCEPT !.todo = u.todo \ {s}]
  BY <1>2
<1>3. CASE Advance(u, s) = [u EXCEPT !.stage = "done", !.todo = {}]
  BY <1>3
<1>4. CASE Advance(u, s) = [u EXCEPT !.stage = next, !.todo = scene.sessions]
  BY <1>4
<1> QED BY <1>1, <1>2, <1>3, <1>4

(* A file is read: the reading goes on with the records it has or there are. *)
LEMMA Onward ==
  ASSUME SessionsOk, ReadsOk, StoreOk, NEW r \in Readers, ReadNext(r) \/ Refuse(r)
  PROVE  Grows /\ \A q \in Readers : Looking(q)' <=> Looking(q)
<1> PICK x : x = reads[r]
  OBVIOUS
<1> DEFINE Goes(u) == "records" \in DOMAIN u /\ u.records \in {x.records, record}
<1>1. ASSUME NEW z, Goes(z), reads' = [reads EXCEPT ![r] = z], x # NoReading,
             UNCHANGED <<scene, record>>
      PROVE  Grows /\ \A q \in Readers : Looking(q)' <=> Looking(q)
  <2>1. z # NoReading
    BY <1>1 DEF NoReading
  <2>2. /\ reads'[r] = z /\ \A q \in Readers : q # r => reads'[q] = reads[q]
        /\ record \in Table
    BY <1>1 DEF StoreOk
  <2>3. \A q \in Readers : Looking(q)' <=> Looking(q)
    BY <1>1, <2>1, <2>2 DEF Looking
  <2>4. ReadsMove
    BY <1>1, <2>2, <2>3 DEF ReadsMove, Looking
  <2> QED BY <1>1, <2>2, <2>3, <2>4, OlderSame DEF Grows
<1>2. ASSUME NEW stage \in StageNames \ {"done"}, NEW s, NEW u, ReadStep(r, stage, s, u),
             x \in Reading => Goes(u)
      PROVE  Grows /\ \A q \in Readers : Looking(q)' <=> Looking(q)
  <2>1. /\ Going(x, since[r]) /\ reads' = [reads EXCEPT ![r] = Advance(u, s)]
        /\ UNCHANGED <<scene, record>>
    BY <1>2, ReadFields DEF ReadStep
  <2>2. x \in Reading /\ x # NoReading
    BY <2>1, GoingIs DEF Going
  <2>3. Goes(Advance(u, s))
    BY <1>2, <2>2, AdvanceKeeps
  <2> QED BY <1>1, <2>1, <2>2, <2>3
<1>3. CASE ReadWorkstreamFacts(r)
  <2> DEFINE u == [x EXCEPT !.records = record]
  <2>1. ReadStep(r, "records", 0, u) /\ (x \in Reading => Goes(u))
    BY <1>3 DEF ReadWorkstreamFacts, Reading
  <2> QED BY <1>2, <2>1 DEF StageNames
<1>4. ASSUME NEW s \in scene.sessions, ReadParticipationFacts(r, s)
      PROVE  Grows /\ \A q \in Readers : Looking(q)' <=> Looking(q)
  <2> DEFINE u == [x EXCEPT !.paths[s] = session[s].path]
  <2>1. ReadStep(r, "participation", s, u) /\ (x \in Reading => Goes(u))
    BY <1>4 DEF ReadParticipationFacts, Reading
  <2> QED BY <1>2, <2>1 DEF StageNames
<1>5. ASSUME NEW s \in scene.sessions, ScanFeed(r, s)
      PROVE  Grows /\ \A q \in Readers : Looking(q)' <=> Looking(q)
  <2> DEFINE u == [x EXCEPT !.feeds[s] = session[s].feed, !.torn[s] = session[s].torn]
  <2>1. ReadStep(r, "feeds", s, u) /\ (x \in Reading => Goes(u))
    BY <1>5 DEF ScanFeed, Reading
  <2> QED BY <1>2, <2>1 DEF StageNames
<1>6. ASSUME NEW s \in scene.sessions, ListActive(r, s)
      PROVE  Grows /\ \A q \in Readers : Looking(q)' <=> Looking(q)
  <2> DEFINE u == [x EXCEPT !.leases[s] = session[s].lease]
  <2>1. ReadStep(r, "active", s, u) /\ (x \in Reading => Goes(u))
    BY <1>6 DEF ListActive, Reading
  <2> QED BY <1>2, <2>1 DEF StageNames
<1>7. ASSUME NEW s \in scene.sessions, ReadCursor(r, s)
      PROVE  Grows /\ \A q \in Readers : Looking(q)' <=> Looking(q)
  <2> DEFINE c == session[s].cursor
             u == [x EXCEPT !.cursors[s] = c,
                            !.unknown = IF Matches(c, Key(x, s)) THEN @ ELSE @ \union {s}]
  <2>1. ReadStep(r, "cursors", s, u)
    BY <1>7 DEF ReadCursor
  <2>2. x \in Reading => Goes(u)
    BY DEF Reading
  <2> QED BY <1>2, <2>1, <2>2 DEF StageNames
<1>8. ASSUME NEW f \in scene.sessions, ScanPinnedFeed(r, f)
      PROVE  Grows /\ \A q \in Readers : Looking(q)' <=> Looking(q)
  <2> PICK needs : needs = Others(f) \ x.unknown
    OBVIOUS
  <2> DEFINE u == [x EXCEPT
                   !.found = [k \in scene.sessions |->
                       IF k \in needs
                       THEN @[k] \union NewsIn(f, session[f].feed, x.cursors[k], Key(x, k))
                       ELSE @[k]],
                   !.unknown = IF session[f].torn THEN @ \union needs ELSE @]
  <2>1. ReadStep(r, "scans", f, u)
    BY <1>8 DEF ScanPinnedFeed
  <2>2. x \in Reading => Goes(u)
    BY DEF Reading
  <2> QED BY <1>2, <2>1, <2>2 DEF StageNames
<1>9. ASSUME NEW s \in scene.sessions, Revalidate(r, s)
      PROVE  Grows /\ \A q \in Readers : Looking(q)' <=> Looking(q)
  <2> DEFINE u == [x EXCEPT !.unknown =
                    IF session[s].cursor = x.cursors[s] THEN @ ELSE @ \union {s}]
  <2>1. ReadStep(r, "revalidate", s, u) /\ (x \in Reading => Goes(u))
    BY <1>9 DEF Revalidate, Reading
  <2> QED BY <1>2, <2>1 DEF StageNames
<1>10. ASSUME NEW s \in scene.sessions, AttachPublish(r, s)
       PROVE  Grows /\ \A q \in Readers : Looking(q)' <=> Looking(q)
  <2> DEFINE u == [x EXCEPT !.blocked = IF session[s].blocked THEN @ \union {s} ELSE @]
  <2>1. ReadStep(r, "publish", s, u) /\ (x \in Reading => Goes(u))
    BY <1>10 DEF AttachPublish, Reading
  <2> QED BY <1>2, <2>1 DEF StageNames
<1>11. CASE Refuse(r)
  <2> DEFINE z == [x EXCEPT !.stage = "done", !.refused = TRUE]
  <2>1. /\ x.stage \in {"records", "participation", "feeds", "active"}
        /\ reads' = [reads EXCEPT ![r].stage = "done", ![r].refused = TRUE]
        /\ UNCHANGED <<scene, record>>
    BY <1>11 DEF Refuse
  <2>2. x # NoReading
    BY <2>1 DEF NoReading
  <2>3. x \in Reading
    BY <2>2 DEF StoreOk, Looking
  <2>4. reads' = [reads EXCEPT ![r] = z] /\ Goes(z)
    BY <2>1, <2>3 DEF Reading, StoreOk
  <2> QED BY <1>1, <2>1, <2>2, <2>4
<1> QED BY <1>3, <1>4, <1>5, <1>6, <1>7, <1>8, <1>9, <1>10, <1>11 DEF ReadNext

LEMMA ModeIs == ASSUME Inv PROVE ui.mode \in Modes /\ scene \in Scenes /\ record \in Table
BY DEF Inv, Holds, UIOk, TypesOk, UIOf, StoreOk

(* Readings that go on, and their beginnings and ends *)
LEMMA ReadingStep ==
  ASSUME Inv, NEW r \in Readers, ReadNext(r) \/ Refuse(r), UNCHANGED uiVars
  PROVE  Inv'
<1>1. Grows /\ \A q \in Readers : Looking(q)' <=> Looking(q)
  BY Onward DEF Inv, Holds
<1>2. UNCHANGED <<scene, record, session, clock>>
  BY DEF ReadNext, Refuse, ReadWorkstreamFacts, ReadParticipationFacts, ScanFeed, ListActive,
         ReadCursor, ScanPinnedFeed, Revalidate, AttachPublish, ReadStep
<1>3. ReadsOk' /\ SessionsOk' /\ record' \in Table
  BY <1>2, ReadNextReads, Refused, SameSessions, ModeIs DEF Inv
<1>4. UIOk'
  BY <1>1, <1>2, ScreenKept DEF Inv, Holds
<1>5. Shows'
  BY <1>1, <1>4, OutsideShows DEF Inv
<1> QED BY <1>3, <1>4, <1>5, Keeps

LEMMA HealthStep ==
  ASSUME Inv, ReadHealth
  PROVE  Inv'
<1>1. UNCHANGED <<scene, record, session, clock>> /\ Begin("refresh")
  BY DEF ReadHealth
<1>2. ReadsOk' /\ SessionsOk' /\ record' \in Table
  BY <1>1, Begins, SameSessions, ModeIs, ReadersAre DEF Inv
<1>3. UIOk'
  BY HealthUI DEF Inv, Holds, StoreOk
<1>4. Shows'
  BY <1>3, HealthShows DEF Inv
<1> QED BY <1>2, <1>3, <1>4, Keeps

LEMMA WriterEndsStep ==
  ASSUME Inv, NEW code \in {"ok", "error", "none"}, NEW warns \in BOOLEAN,
         WriterEnds(code, warns)
  PROVE  Inv'
<1>1. UNCHANGED <<scene, record, session, clock>> /\ Begin("lookup")
  BY DEF WriterEnds
<1>2. ReadsOk' /\ SessionsOk' /\ record' \in Table
  BY <1>1, Begins, SameSessions, ModeIs, ReadersAre DEF Inv
<1>3. UIOk'
  BY WriterEndsUI DEF Inv, Holds, StoreOk
<1>4. Shows'
  BY <1>3, WriterEndsShows DEF Inv
<1> QED BY <1>2, <1>3, <1>4, Keeps

LEMMA EndRefreshStep ==
  ASSUME Inv, CommitRefresh \/ FailRefresh
  PROVE  Inv'
<1>1. PICK ok \in BOOLEAN :
        /\ rd.stage # "idle" /\ Forget("refresh") /\ EndRefresh(ok)
        /\ UNCHANGED <<scene, record, session, clock>>
        /\ ok => rd.stage \in {"catalogue", "context"}
  BY DEF CommitRefresh, FailRefresh
<1>2. ok => Looking("refresh") /\ reads["refresh"] \in Reading
  BY <1>1, ReadersAre DEF Inv, Holds, UIOk, ControlOk, StoreOk
<1>3. ReadsOk' /\ SessionsOk' /\ record' \in Table
  BY <1>1, Forgets, SameSessions, ModeIs, ReadersAre DEF Inv
<1>4. UIOk'
  BY <1>1, <1>2, EndRefreshUI DEF Inv, Holds, StoreOk
<1>5. Shows'
  BY <1>1, <1>2, <1>4, EndRefreshShows DEF Inv
<1> QED BY <1>3, <1>4, <1>5, Keeps

LEMMA FinishStep ==
  ASSUME Inv, NEW read \in BOOLEAN, FinishLifecycle(read) \/ FinishCreate(read)
  PROVE  Inv'
<1>1. /\ Forget("lookup") /\ UNCHANGED <<scene, record, session, clock>>
      /\ Looking("lookup")
  BY DEF FinishLifecycle, FinishCreate, Reconciled, Settling, Looking
<1>2. reads["lookup"] \in Reading /\ DOMAIN reads = Readers
  BY <1>1, ReadersAre DEF Inv, Holds, StoreOk
<1>3. ReadsOk' /\ SessionsOk' /\ record' \in Table
  BY <1>1, Forgets, SameSessions, ModeIs, ReadersAre DEF Inv
<1>4. UIOk'
  BY <1>1, <1>2, EndLifecycleUI, FinishCreateUI DEF Inv, Holds, FinishLifecycle
<1>5. Shows'
  BY <1>4, FinishLifecycleShows, FinishCreateShows DEF Inv
<1> QED BY <1>3, <1>4, <1>5, Keeps

LEMMA WriterActsStep ==
  ASSUME Inv, WriterActs
  PROVE  Inv'
<1>1. UNCHANGED <<scene, session, clock, reads, since>>
  BY DEF WriterActs
<1>2. ReadsOk' /\ SessionsOk'
  BY <1>1, SameReads, SameSessions DEF Inv
<1>3. UIOk'
  BY WriterActsUI DEF Inv, Holds
<1>4. Shows' /\ record' \in Table
  BY <1>3, WriterActsShows DEF Inv
<1> QED BY <1>2, <1>3, <1>4, Keeps

LEMMA OutsideStep ==
  ASSUME Inv, Outside
  PROVE  Inv'
<1>1. SessionNext /\ UNCHANGED uiVars
  BY DEF Outside
<1>2. ASSUME NEW s \in scene.sessions, NEW b, Happens(s, b) PROVE Inv'
  <2>1. ReadsOk' /\ SessionsOk'
    BY <1>2, SessionReads, HappensOk DEF Inv
  <2>2. UNCHANGED <<scene, record, reads>>
    BY <1>2 DEF Happens
  <2>3. Grows /\ \A q \in Readers : Looking(q)' <=> Looking(q)
    BY <2>2, OlderSame, ModeIs DEF Grows, ReadsMove, Looking
  <2>4. UIOk'
    BY <1>1, <2>2, <2>3, ScreenKept DEF Inv, Holds
  <2>5. Shows'
    BY <1>1, <2>3, <2>4, OutsideShows DEF Inv
  <2> QED BY <2>1, <2>2, <2>4, <2>5, Keeps, ModeIs
<1>3. ASSUME NEW w \in Workstreams, Flip(w) PROVE Inv'
  <2>1. UNCHANGED <<scene, session, clock, reads, since>>
    BY <1>3 DEF Flip
  <2>2. ReadsOk' /\ SessionsOk'
    BY <2>1, SameReads, SameSessions DEF Inv
  <2>3. record' \in Table /\ Older(record, record')
    <3>1. CASE record[w] = None
      BY <1>3, <3>1, CreateIs, ModeIs DEF Flip
    <3>2. CASE record[w] # None
      <4>1. PICK status \in Statuses :
              status = IF record[w].status = "open" THEN "completed" ELSE "open"
        BY DEF Statuses
      <4>2. SetStatus(w, status)
        BY <1>3, <3>2, <4>1 DEF Flip
      <4> QED BY <3>2, <4>2, SetStatusIs, ModeIs
    <3> QED BY <3>1, <3>2
  <2>4. Grows /\ \A q \in Readers : Looking(q)' <=> Looking(q)
    BY <2>1, <2>3 DEF Grows, ReadsMove, Looking
  <2>5. UIOk'
    BY <1>1, <2>1, <2>4, ScreenKept DEF Inv, Holds
  <2>6. Shows'
    BY <1>1, <2>4, <2>5, OutsideShows DEF Inv
  <2> QED BY <2>2, <2>3, <2>5, <2>6, Keeps
<1> QED BY <1>1, <1>2, <1>3, SessionSteps DEF Inv

(* What happens on the screen *)
LEMMA ScreenStep ==
  ASSUME Inv, UNCHANGED catalogueVars, UIOk', Shows'
  PROVE  Inv'
BY Untouched, Keeps

LEMMA AskedStep ==
  ASSUME Inv, UNCHANGED closed, NEW mode \in Modes, rd' = Asked(rd, mode),
         UNCHANGED <<catalogueVars, ui, shown, startup, dialog, film, creation, writer, motion>>
  PROVE  Inv'
<1>1. UIOk'
  BY Untouched, AskedUI DEF Inv, Holds
<1> QED BY <1>1, AskedShows, ScreenStep DEF Inv

LEMMA ContextStep ==
  ASSUME Inv, ReadContext
  PROVE  Inv'
BY ContextUI, ContextShows, ScreenStep DEF Inv, Holds, ReadContext

LEMMA StrideStep ==
  ASSUME Inv, StrideDone
  PROVE  Inv'
BY StrideUI, StrideShows, ScreenStep DEF Inv, Holds, StrideDone

LEMMA NothingStep ==
  ASSUME Inv, Nothing, UNCHANGED closed
  PROVE  Inv'
<1>1. /\ UNCHANGED <<catalogueVars, ui, shown, rd, startup, dialog, film, creation,
                     writer, motion>>
  BY DEF Nothing
<1>2. Grows /\ \A r \in Readers : Looking(r)' <=> Looking(r)
  BY <1>1, StillGrows DEF Inv, Holds
<1>3. UIOk'
  <2>1. TypesOk'
    BY <1>1 DEF Inv, Holds, UIOk, TypesOk
  <2>2. ControlOk'
    BY <1>1, <1>2, ReadersAre DEF Inv, Holds, UIOk, ControlOk
  <2> QED BY <2>1, <2>2, Untouched, <1>1 DEF Inv, Holds, UIOk
<1>4. ShownOk'
  BY <1>1, <1>2, <1>3, ShownKept, ReadersAre DEF Inv, Holds, Shows, Counts
<1>5. WroteOk'
  BY <1>1, <1>2, <1>3, WroteKept DEF Inv, Holds, Shows
<1>6. MotionOk'
  BY <1>1, <1>2, MotionSame DEF Inv, Holds, Shows, Grows, Coming
<1> QED BY <1>1, <1>3, <1>4, <1>5, <1>6, ScreenStep DEF Shows

LEMMA TurnStep ==
  ASSUME Inv, NEW new \in UIOf, Turn(new), creation # "none" => new.mode = Home
  PROVE  Inv'
<1>1. /\ ui' = new /\ SyncMotionTimer
      /\ UNCHANGED <<catalogueVars, shown, rd, startup, dialog, film, creation, writer>>
  BY DEF Turn
<1>2. motion' \in Scenery
  BY <1>1, Synced
<1>3. UIOk'
  BY <1>1, <1>2, Untouched, TurnUI DEF Inv, Holds
<1>4. Shows'
  BY <1>1, <1>3, TurnShows DEF Inv
<1> QED BY <1>1, <1>3, <1>4, ScreenStep

LEMMA HelpIs ==
  ASSUME Inv, NEW help \in BOOLEAN
  PROVE  /\ [ui EXCEPT !.help = help] \in UIOf /\ [ui EXCEPT !.help = help].mode = ui.mode
         /\ creation # "none" => ui.mode = Home
BY DEF Inv, Holds, UIOk, TypesOk, ControlOk, UIOf

LEMMA CloseDialogStep ==
  ASSUME Inv, dialog.state \in Results \union {"confirm"}, NEW destination \in Statuses,
         CloseDialog(dialog, destination)
  PROVE  Inv'
<1>1. UIOk'
  BY CloseDialogUI DEF Inv, Holds
<1>2. /\ SyncMotionTimer /\ UNCHANGED <<catalogueVars, shown, rd, creation>>
      /\ dialog'.state = "none" /\ writer'.kind = "none"
  BY DEF CloseDialog, NoDialog, NoWriter
<1>3. Shows'
  BY <1>1, <1>2, TurnShows DEF Inv
<1> QED BY <1>1, <1>2, <1>3, ScreenStep

LEMMA OpenFormStep ==
  ASSUME Inv, dialog.state = "none", creation = "none", OpenForm
  PROVE  Inv'
<1>1. UIOk'
  BY OpenFormUI DEF Inv, Holds
<1>2. /\ SyncMotionTimer /\ UNCHANGED <<catalogueVars, shown, rd, dialog, writer>>
      /\ creation' = "form"
  BY DEF OpenForm
<1>3. Shows'
  BY <1>1, <1>2, TurnShows DEF Inv
<1> QED BY <1>1, <1>2, <1>3, ScreenStep

LEMMA CloseCreateStep ==
  ASSUME Inv, creation \notin {"none", "pending"}, CloseCreate
  PROVE  Inv'
<1>1. UIOk'
  BY CloseCreateUI DEF Inv, Holds
<1>2. /\ SyncMotionTimer /\ UNCHANGED <<catalogueVars, shown, rd, dialog>>
      /\ creation' = "none" /\ writer'.kind = "none"
  BY DEF CloseCreate, NoWriter
<1>3. Shows'
  BY <1>1, <1>2, TurnShows DEF Inv
<1> QED BY <1>1, <1>2, <1>3, ScreenStep

LEMMA PageStep ==
  ASSUME Inv, dialog.state = "none", creation = "none", NEW k, PageCommand(k), UNCHANGED closed
  PROVE  Inv'
<1>1. CASE Refresh
  BY <1>1, AskedStep, ModeIs DEF Refresh
<1>2. CASE Help
  <2> PICK new : new = [ui EXCEPT !.help = TRUE]
    OBVIOUS
  <2>1. new \in UIOf /\ Turn(new)
    BY <1>2, HelpIs DEF Help
  <2> QED BY <2>1, TurnStep
<1>3. CASE OpenForm
  BY <1>3, OpenFormStep
<1>4. CASE Turn([ui EXCEPT !.filter = Desired(@)])
  <2> PICK new : new = [ui EXCEPT !.filter = Desired(@)]
    OBVIOUS
  <2>1. new \in UIOf
    BY DEF Inv, Holds, UIOk, TypesOk, UIOf, Desired, Statuses
  <2> QED BY <1>4, <2>1, TurnStep
<1>5. CASE BeginSelectedLifecycle
  <2>1. UIOk'
    BY <1>5, BeginLifecycleUI DEF Inv, Holds
  <2>2. Shows'
    BY <1>5, <2>1, BeginLifecycleShows DEF Inv
  <2> QED BY <1>5, <2>1, <2>2, ScreenStep DEF BeginSelectedLifecycle
<1>6. CASE Open
  <2>1. UIOk'
    BY <1>6, OpenUI DEF Inv, Holds
  <2>2. Shows'
    BY <1>6, <2>1, OpenShows DEF Inv
  <2> QED BY <1>6, <2>1, <2>2, ScreenStep DEF Open
<1>7. CASE Turn([ui EXCEPT !.paused = ~@])
  <2> PICK c \in BOOLEAN : c = ~ui.paused
    OBVIOUS
  <2> PICK new : new = [ui EXCEPT !.paused = c]
    OBVIOUS
  <2>1. new \in UIOf
    BY DEF Inv, Holds, UIOk, TypesOk, UIOf
  <2>2. Turn(new)
    BY <1>7
  <2> QED BY <2>1, <2>2, TurnStep
<1> QED BY <1>1, <1>2, <1>3, <1>4, <1>5, <1>6, <1>7 DEF PageCommand

LEMMA LifecycleStep ==
  ASSUME Inv, dialog.state # "none", NEW k, LifecycleCommand(k), UNCHANGED closed
  PROVE  Inv'
<1>0. creation = "none"
  BY DEF Inv, Holds, UIOk, ControlOk
<1>1. CASE StartLifecycleWriter
  <2>1. UIOk'
    BY <1>1, StartLifecycleUI DEF Inv, Holds
  <2>2. Shows'
    BY <1>1, <2>1, StartLifecycleShows DEF Inv
  <2> QED BY <1>1, <2>1, <2>2, ScreenStep DEF StartLifecycleWriter
<1>2. CASE dialog.state \in Results /\ CloseDialog(dialog, Desired(dialog.status))
  <2>1. Desired(dialog.status) \in Statuses
    BY DEF Desired, Statuses
  <2> QED BY <1>2, <2>1, CloseDialogStep
<1>3. CASE Refresh
  BY <1>3, AskedStep, ModeIs DEF Refresh
<1>4. CASE Help
  <2> PICK new : new = [ui EXCEPT !.help = TRUE]
    OBVIOUS
  <2>1. new \in UIOf /\ Turn(new)
    BY <1>4, HelpIs DEF Help
  <2> QED BY <1>0, <2>1, TurnStep
<1> QED BY <1>1, <1>2, <1>3, <1>4 DEF LifecycleCommand

LEMMA CreateStep ==
  ASSUME Inv, creation # "none", NEW k, CreateCommand(k), UNCHANGED closed
  PROVE  Inv'
<1>1. CASE creation = "form" /\ StartWriter
  <2>1. UIOk'
    BY <1>1, StartWriterUI DEF Inv, Holds
  <2>2. Shows'
    BY <1>1, <2>1, StartWriterShows DEF Inv
  <2> QED BY <1>1, <2>1, <2>2, ScreenStep DEF StartWriter
<1>2. CASE Refresh
  BY <1>2, AskedStep, ModeIs DEF Refresh
<1>3. CASE /\ ui' = [ui EXCEPT !.help = TRUE]
           /\ UNCHANGED <<catalogueVars, shown, rd, startup, dialog, film, creation, writer,
                          motion>>
  <2>1. ui' \in UIOf /\ (creation # "none" => ui'.mode = Home)
    BY <1>3, HelpIs
  <2>2. UIOk'
    BY <1>3, <2>1, Untouched, TurnUI DEF Inv, Holds, UIOk, TypesOk
  <2>3. Shows'
    BY <1>3, <2>2, CreateHelpShows DEF Inv
  <2> QED BY <1>3, <2>2, <2>3, ScreenStep
<1> QED BY <1>1, <1>2, <1>3 DEF CreateCommand

LEMMA PressStep ==
  ASSUME Inv, NEW k, Press(k)
  PROVE  Inv'
<1>1. UNCHANGED closed /\ (Nothing \/ Command(k))
  BY DEF Press
<1>2. CASE Command(k)
  BY <1>1, <1>2, LifecycleStep, CreateStep, PageStep DEF Command
<1> QED BY <1>1, <1>2, NothingStep

LEMMA EscapeStep ==
  ASSUME Inv, DeliverEscape
  PROVE  Inv'
<1>1. UNCHANGED closed /\ (Nothing \/ Back)
  BY DEF DeliverEscape
<1>2. CASE Nothing
  BY <1>1, <1>2, NothingStep
<1>3. CASE ui.help /\ Turn([ui EXCEPT !.help = FALSE])
  <2> PICK new : new = [ui EXCEPT !.help = FALSE]
    OBVIOUS
  <2>1. new \in UIOf /\ Turn(new) /\ (creation # "none" => new.mode = Home)
    BY <1>3, HelpIs
  <2> QED BY <2>1, TurnStep
<1>4. CASE dialog.state = "pending" /\ CancelLifecycle
  <2>1. UIOk'
    BY <1>4, CancelLifecycleUI DEF Inv, Holds
  <2>2. Shows'
    BY <1>1, <1>4, <2>1, CancelShows DEF Inv
  <2> QED BY <1>4, <2>1, <2>2, ScreenStep DEF CancelLifecycle
<1>5. CASE dialog.state \in Results \union {"confirm"} /\ CloseDialog(dialog, dialog.filter)
  <2>1. dialog \in DialogOf
    BY <1>5, DialogIs DEF Inv, Holds, UIOk, Results
  <2>2. dialog.filter \in Statuses
    BY <2>1 DEF DialogOf
  <2> QED BY <1>5, <2>2, CloseDialogStep
<1>6. CASE creation = "pending" /\ CancelCreate
  <2>1. UIOk'
    BY <1>6, CancelCreateUI DEF Inv, Holds
  <2>2. Shows'
    BY <1>1, <1>6, <2>1, CancelShows DEF Inv
  <2> QED BY <1>6, <2>1, <2>2, ScreenStep DEF CancelCreate
<1>7. CASE creation \notin {"none", "pending"} /\ CloseCreate
  BY <1>7, CloseCreateStep
<1>8. CASE Turn([ui EXCEPT !.mode = Home])
  <2> PICK new : new = [ui EXCEPT !.mode = Home]
    OBVIOUS
  <2>1. new \in UIOf /\ new.mode = Home
    BY DEF Inv, Holds, UIOk, TypesOk, UIOf, Modes
  <2> QED BY <1>8, <2>1, TurnStep
<1>9. startup.on \in BOOLEAN /\ ui.help \in BOOLEAN
  BY DEF Inv, Holds, UIOk, TypesOk, StartupOf, UIOf
<1> QED BY <1>1, <1>2, <1>3, <1>4, <1>5, <1>6, <1>7, <1>8, <1>9 DEF Back

(* The film of a confirmed result ends, or goes on. *)
LEMMA TickStep ==
  ASSUME Inv, MotionTick
  PROVE  Inv'
<1> PICK ticks : ticks = IF film.ticks = PassTicks THEN 1 ELSE film.ticks + 1
  OBVIOUS
<1>1. /\ film # None /\ UNCHANGED closed
      /\ IF film.phase = "finishing" /\ ticks = PassTicks THEN CompleteFilm
         ELSE /\ film' = [film EXCEPT !.ticks = ticks]
              /\ UNCHANGED <<catalogueVars, ui, shown, rd, startup, dialog, creation,
                             writer, motion>>
  BY DEF MotionTick
<1>2. film \in FilmOf /\ scene \in Scenes
  BY <1>1 DEF Inv, Holds, UIOk, TypesOk
<1>3. CASE film.phase = "finishing" /\ ~dialog.warns /\ CloseDialog(dialog, "open")
  <2>1. dialog.state = "confirmed"
    BY <1>1, <1>3 DEF Inv, Holds, UIOk, ControlOk
  <2> QED BY <1>3, <2>1, CloseDialogStep DEF Results, Statuses
<1>4. CASE /\ film' = None /\ SyncMotionTimer
           /\ UNCHANGED <<catalogueVars, ui, shown, rd, startup, dialog, creation, writer>>
  <2>1. motion' \in Scenery
    BY <1>4, Synced
  <2>2. UIOk'
    BY <1>1, <1>4, <2>1, Untouched, FilmUI DEF Inv, Holds
  <2>3. Shows'
    BY <1>4, <2>2, TurnShows DEF Inv
  <2> QED BY <1>4, <2>2, <2>3, ScreenStep
<1>5. CASE /\ film' = [film EXCEPT !.ticks = ticks]
           /\ UNCHANGED <<catalogueVars, ui, shown, rd, startup, dialog, creation, writer,
                          motion>>
  <2>1. ticks \in 0..PassTicks
    <3>1. film.ticks \in 0..PassTicks /\ PassTicks \in Nat \ {0}
      BY <1>2, SceneUI DEF FilmOf
    <3> QED BY <3>1
  <2>2. film' \in FilmOf /\ film'.phase = film.phase
    BY <1>2, <1>5, <2>1 DEF FilmOf
  <2>3. motion' \in Scenery
    BY <1>5 DEF Inv, Holds, UIOk, TypesOk
  <2>4. UIOk'
    BY <1>1, <1>5, <2>2, <2>3, Untouched, FilmUI DEF Inv, Holds
  <2>5. Shows'
    BY <1>1, <1>5, <2>2, <2>4, TickShows DEF Inv
  <2> QED BY <1>5, <2>4, <2>5, ScreenStep
<1> QED BY <1>1, <1>3, <1>4, <1>5 DEF CompleteFilm

LEMMA ResizeStep ==
  ASSUME Inv, NEW tier \in scene.tiers, Resize(tier)
  PROVE  Inv'
<1>1. /\ ui' = [ui EXCEPT !.tier = tier] /\ (film' = film \/ film' = None) /\ SyncMotionTimer
      /\ UNCHANGED <<catalogueVars, shown, rd, startup, dialog, creation, writer>>
  BY DEF Resize, Retired
<1>2. ui' \in UIOf /\ ui'.mode = ui.mode
  <2>1. tier \in Tiers /\ ui \in UIOf
    BY SceneUI DEF Inv, Holds, UIOk, TypesOk
  <2>2. ui' = [ui EXCEPT !.tier = tier]
    BY <1>1
  <2> QED BY <2>1, <2>2 DEF UIOf
<1>3. motion' \in Scenery /\ UNCHANGED <<scene, reads>>
  BY <1>1, Synced, Untouched
<1>4. TypesOk'
  BY <1>1, <1>2, <1>3 DEF Inv, Holds, UIOk, TypesOk
<1>5. ControlOk'
  BY <1>1, <1>2, <1>3 DEF Inv, Holds, UIOk, ControlOk, Looking
<1>6. UIOk'
  BY <1>3, <1>4, <1>5 DEF Inv, Holds, UIOk
<1>7. Shows'
  BY <1>1, <1>6, TurnShows DEF Inv
<1> QED BY <1>1, <1>6, <1>7, ScreenStep

LEMMA CloseStep ==
  ASSUME Inv, Finish
  PROVE  Inv'
<1>1. /\ motion' = "none"
      /\ UNCHANGED <<catalogueVars, ui, shown, rd, startup, dialog, film, creation, writer>>
  BY DEF Finish
<1>2. ui' \in UIOf /\ (creation # "none" => ui'.mode = Home) /\ motion' \in Scenery
  BY <1>1 DEF Inv, Holds, UIOk, TypesOk, ControlOk, Scenery
<1>3. UIOk'
  BY <1>1, <1>2, Untouched, TurnUI DEF Inv, Holds
<1>4. Shows'
  BY <1>3, FinishShows DEF Inv
<1> QED BY <1>1, <1>3, <1>4, ScreenStep

LEMMA StutterStep ==
  ASSUME Inv, UNCHANGED vars
  PROVE  Inv'
BY NothingStep DEF vars, uiVars, Nothing

LEMMA InvKept ==
  ASSUME Inv, [Next]_vars
  PROVE  Inv'
<1>1. CASE RefreshTick
  BY <1>1, AskedStep, ModeIs DEF RefreshTick
<1>2. CASE RefreshNext
  BY <1>2, HealthStep, ReadingStep, ContextStep, EndRefreshStep, ReadersAre
     DEF RefreshNext, ReadCatalogue
<1>3. CASE FailRefresh
  BY <1>3, EndRefreshStep
<1>4. CASE RefuseRead
  BY <1>4, ReadingStep DEF RefuseRead
<1>5. CASE StrideDone
  BY <1>5, StrideStep
<1>6. CASE WriterActs
  BY <1>6, WriterActsStep
<1>7. CASE WriterNext
  BY <1>7, ReadingStep, WriterEndsStep, FinishStep, ReadersAre DEF WriterNext, LookUp
<1>8. CASE MotionTick
  BY <1>8, TickStep
<1>9. CASE \E k \in scene.keys : Press(k)
  BY <1>9, PressStep
<1>10. CASE DeliverEscape
  BY <1>10, EscapeStep
<1>11. CASE Finish
  BY <1>11, CloseStep
<1>12. CASE \E tier \in scene.tiers : Resize(tier)
  BY <1>12, ResizeStep
<1>13. CASE Outside
  BY <1>13, OutsideStep
<1>14. CASE UNCHANGED vars
  BY <1>14, StutterStep
<1> QED BY <1>1, <1>2, <1>3, <1>4, <1>5, <1>6, <1>7, <1>8, <1>9, <1>10, <1>11, <1>12, <1>13,
           <1>14 DEF Next

LEMMA InvBegins ==
  ASSUME Init
  PROVE  Inv
<1>1. /\ CatalogueInit /\ shown = None /\ dialog = NoDialog /\ film = None
      /\ creation = "none" /\ writer = NoWriter /\ motion = "none"
      /\ ui = [mode |-> scene.opens, filter |-> "open", help |-> FALSE, paused |-> FALSE,
               tier |-> "framed"]
      /\ rd = [stage |-> "health", at |-> 0, mode |-> scene.opens, gen |-> 0,
               lock |-> FALSE, queued |-> FALSE, overtaken |-> FALSE]
      /\ startup = [on |-> TRUE, settled |-> FALSE, stride |-> ~scene.motion]
  BY DEF Init
<1>2. record \in Table /\ SessionsOk /\ ReadsOk /\ scene \in Scenes
  BY <1>1, CatalogueBegins DEF SessionsOk
<1>3. \A r \in Readers : ~Looking(r)
  BY <1>1 DEF CatalogueInit, Looking
<1>4. scene.opens \in Modes /\ scene.motion \in BOOLEAN
  BY <1>2, SceneUI
<1>5. startup \in StartupOf
  <2> PICK c \in BOOLEAN : c = ~scene.motion
    BY <1>4
  <2>1. startup = [on |-> TRUE, settled |-> FALSE, stride |-> c]
    BY <1>1
  <2> QED BY <2>1 DEF StartupOf
<1>6. TypesOk
  BY <1>1, <1>4, <1>5 DEF TypesOk, UIOf, RefreshOf, Statuses, Tiers, Scenery
<1>7. ControlOk
  BY <1>1, <1>3, ReadersAre DEF ControlOk, NoDialog, NoWriter, Results, Made
<1>8. StoreOk
  BY <1>2, StoreFollows
<1>9. ShownOk
  BY <1>1, <1>3, ReadersAre DEF ShownOk
<1>10. WroteOk
  BY <1>1 DEF WroteOk, DialogTrue, WriterTrue, ResultTrue, NoDialog, NoWriter
<1>11. MotionOk
  BY <1>1 DEF MotionOk, Coming
<1> QED BY <1>2, <1>6, <1>7, <1>8, <1>9, <1>10, <1>11 DEF Inv, Holds, UIOk, Shows

-----------------------------------------------------------------------------
(* What the steps may never do *)

(* Only the end of a refresh and of a lookup change what is shown. *)
LEMMA ShownBy ==
  ASSUME Next, shown' # shown
  PROVE  \/ CommitRefresh
         \/ \E read \in BOOLEAN : FinishLifecycle(read) \/ FinishCreate(read)
<1>1. ~RefreshTick /\ ~StrideDone /\ ~WriterActs /\ ~DeliverEscape /\ ~Finish
  <2>1. ~RefreshTick /\ ~StrideDone /\ ~WriterActs /\ ~Finish
    BY DEF RefreshTick, StrideDone, WriterActs, Finish
  <2>2. ASSUME DeliverEscape PROVE FALSE
    BY <2>2 DEF DeliverEscape, Nothing, Back, Turn, CancelLifecycle, CloseDialog, CancelCreate,
                CloseCreate
  <2> QED BY <2>1, <2>2
<1>2. ~ReadHealth /\ ~ReadCatalogue /\ ~ReadContext /\ ~RefuseRead /\ ~Outside /\ ~LookUp
  BY DEF ReadHealth, ReadCatalogue, ReadContext, RefuseRead, Outside, LookUp, uiVars
<1>3. ~FailRefresh
  BY DEF FailRefresh, EndRefresh
<1>4. ~\E code \in {"ok", "error", "none"}, warns \in BOOLEAN : WriterEnds(code, warns)
  BY DEF WriterEnds
<1>5. ~MotionTick
  BY DEF MotionTick, CompleteFilm, CloseDialog
<1>6. ~\E tier \in scene.tiers : Resize(tier)
  BY DEF Resize
<1>7. ASSUME NEW k, Press(k) PROVE FALSE
  <2>1. Nothing \/ Command(k)
    BY <1>7 DEF Press
  <2>2. ~Nothing /\ ~Refresh /\ ~Help
    BY DEF Nothing, Refresh, Help, Turn
  <2>3. ~PageCommand(k)
    BY <2>2 DEF PageCommand, OpenForm, Turn, BeginSelectedLifecycle, Open
  <2>4. ~LifecycleCommand(k)
    BY <2>2 DEF LifecycleCommand, StartLifecycleWriter, CloseDialog
  <2>5. ~CreateCommand(k)
    BY <2>2 DEF CreateCommand, StartWriter
  <2> QED BY <2>1, <2>2, <2>3, <2>4, <2>5 DEF Command
<1> QED BY <1>1, <1>2, <1>3, <1>4, <1>5, <1>6, <1>7 DEF Next, RefreshNext, WriterNext

NotEarlier ==
    /\ shown # None /\ shown' # shown /\ ~shown'.refused
    /\ ~rd.overtaken /\ creation' = creation
    => \A w \in Workstreams :
          shown.records[w] # None =>
              /\ shown'.records[w] # None
              /\ shown'.records[w].rev >= shown.records[w].rev

LEMMA StepForward ==
  ASSUME Inv, Next
  PROVE  NotEarlier
<1> SUFFICES ASSUME shown # None, shown' # shown, ~shown'.refused, ~rd.overtaken,
                    creation' = creation
             PROVE  \A w \in Workstreams :
                       shown.records[w] # None =>
                           /\ shown'.records[w] # None
                           /\ shown'.records[w].rev >= shown.records[w].rev
  BY DEF NotEarlier
<1>1. ASSUME NEW r \in Readers, Looking(r), shown' = Projection(reads[r]),
             Older(shown.records, reads[r].records)
      PROVE  Older(shown.records, shown'.records) /\ shown'.records \in Table
  BY <1>1, ProjectionOlder DEF Inv, Reading
<1>2. Older(shown.records, shown'.records) /\ shown'.records \in Table
  <2>1. CASE CommitRefresh
    <3>1. /\ shown' = Projection(reads["refresh"]) /\ rd.at = rd.gen
          /\ rd.stage \in {"catalogue", "context"}
      BY <2>1 DEF CommitRefresh, EndRefresh
    <3>2. Looking("refresh") /\ Counts
      BY <3>1 DEF Inv, Holds, UIOk, ControlOk, Counts
    <3>3. Older(shown.records, reads["refresh"].records)
      BY <3>2 DEF Inv, Holds, Shows, ShownOk
    <3> QED BY <1>1, <3>1, <3>2, <3>3, ReadersAre
  <2>2. ASSUME NEW read \in BOOLEAN, FinishLifecycle(read)
        PROVE  Older(shown.records, shown'.records) /\ shown'.records \in Table
    <3>1. /\ shown' = Projection(reads["lookup"]) /\ writer.kind = "status" /\ Looking("lookup")
      BY <2>2 DEF FinishLifecycle, EndLifecycle, Settling, Looking
    <3>2. Older(shown.records, reads["lookup"].records)
      BY <3>1 DEF Inv, Holds, Shows, ShownOk
    <3> QED BY <1>1, <3>1, <3>2, ReadersAre
  <2>3. ASSUME NEW read \in BOOLEAN, FinishCreate(read) PROVE FALSE
    <3>1. UIOk'
      BY InvKept DEF Inv, Holds
    <3> QED BY <2>3, <3>1, FinishCreateShows DEF Inv
  <2> QED BY <2>1, <2>2, <2>3, ShownBy
<1>3. ASSUME NEW w \in Workstreams, shown.records[w] # None
      PROVE  shown'.records[w] # None /\ shown'.records[w].rev >= shown.records[w].rev
  <2>1. shown'.records[w] # None /\ shown.records[w].rev <= shown'.records[w].rev
    BY <1>2, <1>3 DEF Older
  <2>2. shown.records \in Table
    BY DEF Inv, Holds, UIOk, TypesOk, ScreenOf
  <2>3. shown.records[w].rev \in Nat /\ shown'.records[w].rev \in Nat
    BY <1>2, <1>3, <2>1, <2>2 DEF Table, Row
  <2> QED BY <2>1, <2>3
<1> QED BY <1>3

Waits == dialog.state \in Results \union {"pending"}

Dismissed ==
    \/ film # None /\ ~writer.warns
    \/ /\ film = None /\ dialog.state \in Results
       /\ esc # None => esc.at \in Results \/ esc.film = 0

LEMMA DialogBy ==
  ASSUME Next, Waits, dialog' # dialog
  PROVE  \/ \E read \in BOOLEAN : FinishLifecycle(read)
         \/ MotionTick \/ DeliverEscape
         \/ \E k \in scene.keys : esc = None /\ LifecycleCommand(k)
<1>1. ~RefreshTick /\ ~StrideDone /\ ~WriterActs /\ ~Finish
  BY DEF RefreshTick, StrideDone, WriterActs, Finish
<1>2. ~ReadHealth /\ ~ReadCatalogue /\ ~ReadContext /\ ~RefuseRead /\ ~Outside /\ ~LookUp
  BY DEF ReadHealth, ReadCatalogue, ReadContext, RefuseRead, Outside, LookUp, uiVars
<1>3. ~FailRefresh /\ ~CommitRefresh
  BY DEF FailRefresh, CommitRefresh, EndRefresh
<1>4. ~\E code \in {"ok", "error", "none"}, warns \in BOOLEAN : WriterEnds(code, warns)
  BY DEF WriterEnds
<1>5. ~\E read \in BOOLEAN : FinishCreate(read)
  BY DEF FinishCreate
<1>6. ~\E tier \in scene.tiers : Resize(tier)
  BY DEF Resize
<1>7. ASSUME NEW k \in scene.keys, Press(k) PROVE esc = None /\ LifecycleCommand(k)
  <2>1. ~Nothing
    BY DEF Nothing
  <2>2. esc = None /\ Command(k)
    BY <1>7, <2>1 DEF Press
  <2>3. dialog.state # "none"
    BY DEF Waits, Results
  <2> QED BY <2>2, <2>3 DEF Command
<1> QED BY <1>1, <1>2, <1>3, <1>4, <1>5, <1>6, <1>7 DEF Next, RefreshNext, WriterNext

LEMMA StepSeen ==
  ASSUME Inv, Next, Waits, dialog'.state = "none"
  PROVE  Dismissed
<1>1. dialog \in DialogOf /\ dialog' # dialog
  BY DEF Inv, Holds, UIOk, TypesOk, NoDialog, Waits, Results
<1>2. ASSUME NEW read \in BOOLEAN, FinishLifecycle(read) PROVE Dismissed
  <2>1. PICK found :
          LET state == SettleLifecycle(found)
              over == /\ state = "confirmed" /\ film # None /\ film.ticks = PassTicks
                      /\ ~writer.warns
          IN dialog' = IF over THEN NoDialog
                       ELSE [dialog EXCEPT !.state = state, !.warns = writer.warns]
    BY <1>2 DEF FinishLifecycle, EndLifecycle
  <2>2. PICK state : state = SettleLifecycle(found)
    OBVIOUS
  <2>3. state \in Results
    BY <2>2, SettleIs
  <2>4. CASE film # None /\ ~writer.warns
    BY <2>4 DEF Dismissed
  <2>5. CASE ~(film # None /\ ~writer.warns)
    <3>1. dialog' = [dialog EXCEPT !.state = state, !.warns = writer.warns]
      BY <2>1, <2>2, <2>5
    <3>2. dialog'.state = state
      BY <1>1, <3>1 DEF DialogOf
    <3> QED BY <2>3, <3>2 DEF Results
  <2> QED BY <2>4, <2>5
<1>3. CASE MotionTick
  <2>1. film # None /\ film.phase = "finishing" /\ ~dialog.warns
    BY <1>1, <1>3 DEF MotionTick, CompleteFilm
  <2>2. dialog.warns = writer.warns
    BY <2>1 DEF Inv, Holds, UIOk, ControlOk
  <2> QED BY <2>1, <2>2 DEF Dismissed
<1>4. CASE DeliverEscape
  <2>1. esc # None /\ ~Stale(esc) /\ Back
    BY <1>1, <1>4 DEF DeliverEscape, Nothing
  <2>2. ~startup.on /\ ~ui.help
    BY <1>1, <2>1 DEF Back, Nothing, Turn
  <2>3. dialog.state # "pending"
    <3> SUFFICES ASSUME dialog.state = "pending" PROVE FALSE
      OBVIOUS
    <3>1. CancelLifecycle
      BY <1>1, <2>1, <2>2 DEF Back, Nothing, Results
    <3>2. dialog' = [dialog EXCEPT !.cancelled = TRUE]
      BY <3>1 DEF CancelLifecycle
    <3>3. dialog'.state = dialog.state
      BY <1>1, <3>2 DEF DialogOf
    <3> QED BY <3>3
  <2>4. dialog.state \in Results
    BY <2>3 DEF Waits
  <2>5. film = None
    BY <1>1, <2>1, <2>2, <2>3, <2>4 DEF Back, Nothing
  <2>6. esc.film = 0
    BY <2>1, <2>5 DEF Stale
  <2> QED BY <2>4, <2>5, <2>6 DEF Dismissed
<1>5. ASSUME NEW k \in scene.keys, esc = None, LifecycleCommand(k) PROVE Dismissed
  <2>1. film = None /\ dialog.state # "confirm"
    BY <1>5 DEF LifecycleCommand, Waits, Results
  <2>2. dialog.state \in Results
    BY <1>1, <1>5, <2>1 DEF LifecycleCommand, StartLifecycleWriter, Refresh, Help, Turn
  <2> QED BY <1>5, <2>1, <2>2 DEF Dismissed
<1> QED BY <1>1, <1>2, <1>3, <1>4, <1>5, DialogBy

LEMMA InvGives ==
  ASSUME Inv
  PROVE  ReadyCountTrue /\ QuietUnlessStirred /\ ResultTrue /\ MotionLive
<1>1. ReadyCountTrue /\ QuietUnlessStirred
  BY CountsTrue, QuietTrue DEF Inv
<1>2. ResultTrue
  BY DEF Inv, Holds, Shows, WroteOk
<1>3. TypeOK
  <2>1. ui \in [mode : Workstreams \union {Home}, filter : {"open", "completed"},
                help : BOOLEAN, paused : BOOLEAN, tier : Tiers]
    BY DEF Inv, Holds, UIOk, TypesOk, UIOf, Modes, Statuses
  <2>2. /\ rd.stage \in {"idle", "health", "catalogue", "context"}
        /\ rd.at \in 0..rd.gen /\ {rd.lock, rd.queued, rd.overtaken} \subseteq BOOLEAN
    BY DEF Inv, Holds, UIOk, TypesOk, RefreshOf
  <2>3. dialog.state \in Results \union {"none", "confirm", "pending"}
    BY DEF Inv, Holds, UIOk, TypesOk, DialogOf, NoDialog
  <2>4. film # None => film.phase \in {"writer", "reconcile", "finishing"}
                       /\ film.ticks \in 0..PassTicks
    BY DEF Inv, Holds, UIOk, TypesOk, FilmOf
  <2>5. creation \in Made \union {"none", "form", "pending"}
        /\ motion \in {"none", "film", "decision", "dashboard"}
    BY DEF Inv, Holds, UIOk, TypesOk, Scenery
  <2> QED BY <2>1, <2>2, <2>3, <2>4, <2>5 DEF TypeOK
<1>4. MotionOk
  BY DEF Inv, Holds, Shows
<1>5. Coming => rd.stage # "idle" \/ rd.queued
  BY DEF Coming
<1> QED BY <1>1, <1>2, <1>3, <1>4, <1>5 DEF MotionLive, MotionOk

LEMMA Always == Spec => []Inv
BY InvBegins, InvKept, PTL DEF Spec

(* A count of unread turns that a catalogue calls ready (src/reader/unread.ts)
   lies between two counts the recipient had while the batch was read, however
   turns are published, sessions move and cursors are written between its
   reads. *)
THEOREM ReadyCountsHold == Spec => []ReadyCountTrue
BY Always, InvGives, PTL

(* A workstream that a catalogue calls proven quiet (src/reader/catalogue.ts)
   was quiet at one moment of its reading, unless a session began to work in it
   or a blocked publication went through since it began. *)
THEOREM QuietHolds == Spec => []QuietUnlessStirred
BY Always, InvGives, PTL

(* A dialog or a creation that reports an outcome is right about what its
   writer did to the store (settleLifecycle and settleCreate in
   src/tui/comfort-app.ts), wherever the writer was stopped and whatever the
   lookup after it met. *)
THEOREM ResultHolds == Spec => []ResultTrue
BY Always, InvGives, PTL

(* The motion timer serves the scene on the screen, and a scene that wants it
   has it or a refresh under way that arms it (syncMotionTimer). *)
THEOREM MotionHolds == Spec => []MotionLive
BY Always, InvGives, PTL

(* A wait or its result leaves the screen only by a key pressed on a result
   without a film, or with the film of a change nobody was warned of. *)
THEOREM ResultsAreSeen == Spec => ResultSeen
<1>1. Inv /\ [Next]_vars => [Waits /\ dialog'.state = "none" => Dismissed]_vars
  BY StepSeen
<1>2. (Waits /\ dialog'.state = "none" => Dismissed)
      <=> (/\ dialog.state \in Results \union {"pending"} /\ dialog'.state = "none"
           => \/ film # None /\ ~writer.warns
              \/ /\ film = None /\ dialog.state \in Results
                 /\ esc # None => esc.at \in Results \/ esc.film = 0)
  BY DEF Waits, Dismissed
<1> QED BY Always, <1>1, <1>2, PTL DEF Spec, ResultSeen

(* The screen never goes back to an earlier revision of a workstream, save
   where the lookup of a creation and a refresh overtake each other. *)
THEOREM RevisionsNeverRegress == Spec => NeverRegresses
<1>1. Inv /\ [Next]_vars => [NotEarlier]_vars
  BY StepForward
<1> QED BY Always, <1>1, PTL DEF Spec, NeverRegresses, NotEarlier

=============================================================================
