------------------------- MODULE NudgeCursorProofs -------------------------
(***************************************************************************)
(* Theorems of NudgeCursor, for any feeds, tools, units and limits, and    *)
(* any number of hooks.                                                    *)
(*                                                                         *)
(* The first half is about what the cursor says of the feeds: it passes    *)
(* over nothing that was not read, and its revision advances only with     *)
(* text that was unread (CursorInv).                                       *)
(*                                                                         *)
(* The second half is about what its marks say against what was delivered: *)
(* whatever hooks race, fail and are rolled back, a session hears of       *)
(* nothing twice, the cursor file claims nothing that was not delivered    *)
(* and can be read back, and a Stop spares a turn that a read informed or  *)
(* that was told last.  It is about sessions that did not inherit a cursor *)
(* of the first version, whose markers only say that something was told.   *)
(***************************************************************************)
EXTENDS NudgeCursor, TLAPS, SequenceTheorems, FiniteSetTheorems, NaturalsInduction,
        WellFoundedInduction

-----------------------------------------------------------------------------
(* Types *)

Record == [ws : Workstreams, at : 1 .. scene.time]
Epoch == [ws : Workstreams, from : 1 .. scene.time]
ScanType == [len : [Feeds -> Nat], av : [Feeds -> {"ok", "gone", "broken"}]]
Pending == [tool : Tools, nonce : Nat, turn : Nat, live : BOOLEAN, text : SUBSET Bits]

Cursor ==
    [ws : Workstreams, from : 1 .. scene.time, rev : Nat, pos : [Feeds -> Nat],
     v : 1 .. 3, stop : Nat, high : Nat, last : Nat, pending : SUBSET Pending,
     cov : SUBSET Bits, outside : BOOLEAN, informed : Nat, gen : Nat]

Txn == [hook : HookCalls, turn : Nat, epoch : Epoch, scan : ScanType,
        phase : {"scanned", "checked"}]

Delivery ==
    [op : {"prompt", "tool", "stop"}, ws : Workstreams, from : 1 .. scene.time,
     rev : Nat, count : Nat, turn : Nat,
     stage : {"claimed", "emitted", "failed", "void", "forgotten"},
     before : Nat \X Nat, after : Nat \X Nat]

Read == [op : {"read"}, rev : Nat, count : Nat, turn : Nat,
         stage : {"emitted", "forgotten"}]

Output == [nonce : Nat, kind : {"turn", "context"}, text : SUBSET Bits]

Types ==
    /\ scene \in Scenes
    /\ now \in 1 .. scene.time /\ turn \in 1 .. scene.turns /\ nonces \in Nat
    /\ feed \in [Feeds -> Seq(Record)]
    /\ avail \in [Feeds -> {"ok", "gone", "broken"}]
    /\ epoch \in Epoch \union {NoEpoch}
    /\ cursor \in Cursor \union {NoCursor}
    /\ txn \in Txn \union {NoTxn}
    /\ sent \in Seq(Delivery \union Read)
    /\ out \in [Tools -> Output]

(* Feeds grow up to the limit, and those that are not there stay empty. *)
Feeding ==
    \A f \in Feeds : /\ Len(feed[f]) <= MaxRecords
                     /\ f \notin scene.feeds => feed[f] = <<>>

-----------------------------------------------------------------------------
(* What a cursor has read *)

(* b was printed for the membership of the cursor c. *)
Within(c, b) == <<[ws |-> c.ws, from |-> c.from], b>> \in printed

Shown(c, k) ==
    \E fld \in Fields : \A u \in scene.units : Within(c, <<k[1], k[2], fld, u>>)

(* What the cursor covers was printed ... *)
Covered(c) == \A b \in c.cov : Within(c, b)

(* ... and so was one field of every record that its positions have passed. *)
Passed(c) ==
    \A k \in Keys : Eligible(c, k) /\ k[2] <= c.pos[k[1]] => Shown(c, k)

(* Output that carries the nonce of one of its reservations was printed for its
   membership. *)
Reserved(c) ==
    \A p \in c.pending :
        /\ p.nonce <= nonces
        /\ \A t \in Tools : out[t].nonce = p.nonce =>
              \A b \in out[t].text : Within(c, b)

Good(c) ==
    /\ \A f \in Feeds : c.pos[f] <= Len(feed[f])
    /\ Covered(c) /\ Passed(c) /\ Reserved(c)

(* The scan of a transaction is not ahead of the feeds, nor behind the cursor:
   the lock keeps others from writing it. *)
ScanCurrent ==
    txn # NoTxn =>
        \A f \in Feeds : /\ txn.scan.len[f] <= Len(feed[f])
                         /\ cursor # NoCursor => cursor.pos[f] <= txn.scan.len[f]

(* Nonces are new. *)
Nonces == \A t \in Tools : out[t].nonce <= nonces

CursorInv ==
    /\ Types /\ Feeding
    /\ cursor # NoCursor => Good(cursor)
    /\ ScanCurrent /\ Nonces

LEMMA SceneFacts ==
  ASSUME Types
  PROVE  /\ scene.feeds \subseteq Feeds /\ scene.workstreams \subseteq Workstreams
         /\ scene.time \in Nat \ {0} /\ scene.turns \in Nat \ {0}
         /\ scene.records \in 0 .. MaxRecords /\ MaxRecords \in Nat
         /\ scene.version \in 1 .. 3
BY NudgeAssumption DEF Types, SceneType

-----------------------------------------------------------------------------
(* Scans *)

LEMMA LeastOfNats ==
  ASSUME NEW T \in SUBSET Nat, T # {}
  PROVE  \E x \in T : \A y \in T : x <= y
<1> DEFINE R == {ss \in Nat \X Nat : ss[1] < ss[2]}
<1>1. IsWellFoundedOn(R, Nat)
  BY NatLessThanWellFounded DEF OpToRel
<1>2. PICK x \in T : \A y \in T : <<y, x>> \notin R
  BY <1>1, WFMin
<1>3. ASSUME NEW y \in T, y < x PROVE FALSE
  <2>1. <<y, x>> \in Nat \X Nat /\ <<y, x>>[1] = y /\ <<y, x>>[2] = x
    OBVIOUS
  <2> QED BY <1>2, <1>3, <2>1
<1>4. \A y \in T : x <= y
  BY <1>3
<1> QED BY <1>4

(* A prefix stays in the feed, moves on only and ends before what is unread. *)
LEMMA PrefixProperties ==
  ASSUME NEW c, NEW sc, NEW f, c.pos[f] \in Nat, sc.len[f] \in Nat,
         c.pos[f] <= sc.len[f]
  PROVE  /\ Prefix(c, sc, f) \in c.pos[f] .. sc.len[f]
         /\ \A k \in UnreadIn(c, sc, f) : Prefix(c, sc, f) < k[2]
<1> DEFINE U == UnreadIn(c, sc, f)
           P(n) == /\ \A k \in U : n < k[2]
                   /\ n = sc.len[f] \/ <<f, n + 1>> \in U
<1>1. CASE sc.av[f] # "ok"
  <2>1. U = {}
    BY <1>1 DEF UnreadIn
  <2>2. Prefix(c, sc, f) = c.pos[f]
    BY <1>1 DEF Prefix
  <2> QED BY <2>1, <2>2
<1>2. CASE sc.av[f] = "ok"
  <2>1. Prefix(c, sc, f) = CHOOSE n \in c.pos[f] .. sc.len[f] : P(n)
    BY <1>2 DEF Prefix
  <2>2. \A k \in U : k = <<f, k[2]>> /\ k[2] \in c.pos[f] + 1 .. sc.len[f]
    BY DEF UnreadIn
  <2> HIDE DEF U
  <2>3. \E n \in c.pos[f] .. sc.len[f] : P(n)
    <3>1. CASE U = {}
      BY <3>1
    <3>2. CASE U # {}
      <4> DEFINE T == {k[2] : k \in U}
      <4>1. T \in SUBSET Nat /\ T # {}
        BY <2>2, <3>2
      <4>2. PICK m \in T : \A y \in T : m <= y
        BY <4>1, LeastOfNats
      <4>3. PICK k \in U : m = k[2]
        BY <4>2
      <4>4. m \in c.pos[f] + 1 .. sc.len[f] /\ <<f, m>> \in U
        BY <2>2, <4>3
      <4>5. m - 1 \in c.pos[f] .. sc.len[f] /\ (m - 1) + 1 = m
        BY <4>4
      <4>6. \A j \in U : m - 1 < j[2]
        <5> SUFFICES ASSUME NEW j \in U PROVE m - 1 < j[2]
          OBVIOUS
        <5>1. m <= j[2]
          BY <4>2
        <5>2. j[2] \in Nat /\ m \in Nat
          BY <2>2, <4>4
        <5> QED BY <5>1, <5>2
      <4>7. P(m - 1)
        BY <4>4, <4>5, <4>6
      <4> QED BY <4>5, <4>7
    <3> QED BY <3>1, <3>2
  <2> HIDE DEF P
  <2>4. /\ Prefix(c, sc, f) \in c.pos[f] .. sc.len[f]
        /\ P(Prefix(c, sc, f))
    BY <2>1, <2>3
  <2> QED BY <2>4 DEF P, U
<1> QED BY <1>1, <1>2

(* A feed is not scanned beyond its limit. *)
LEMMA UnreadFinite ==
  ASSUME Types, NEW c \in Cursor, NEW sc \in ScanType
  PROVE  IsFiniteSet(Unread(c, sc)) /\ Cardinality(Unread(c, sc)) \in Nat
<1>1. \A f \in Feeds : IsFiniteSet(UnreadIn(c, sc, f))
  <2> SUFFICES ASSUME NEW f \in Feeds PROVE IsFiniteSet(UnreadIn(c, sc, f))
    OBVIOUS
  <2>1. c.pos[f] + 1 \in Int /\ sc.len[f] \in Int
    BY DEF Cursor, ScanType
  <2>2. IsFiniteSet(c.pos[f] + 1 .. sc.len[f])
    BY <2>1, FS_Interval
  <2>3. IsFiniteSet({f})
    BY FS_Singleton
  <2>4. IsFiniteSet({f} \X (c.pos[f] + 1 .. sc.len[f]))
    BY <2>2, <2>3, FS_Product
  <2>5. UnreadIn(c, sc, f) \subseteq {f} \X (c.pos[f] + 1 .. sc.len[f])
    BY DEF UnreadIn
  <2> QED BY <2>4, <2>5, FS_Subset
<1>2. IsFiniteSet({UnreadIn(c, sc, f) : f \in Feeds})
  <2> DEFINE g == [f \in Feeds |-> UnreadIn(c, sc, f)]
  <2>1. g \in Surjection(Feeds, {UnreadIn(c, sc, f) : f \in Feeds})
    BY DEF Surjection
  <2>2. IsFiniteSet(Feeds)
    BY NudgeAssumption
  <2> QED BY <2>1, <2>2, FS_Surjection
<1>3. IsFiniteSet(Unread(c, sc))
  BY <1>1, <1>2, FS_UNION DEF Unread
<1> QED BY <1>3, FS_CardinalityType

(* collapseReadCursor moves on over what was read, and forgets only that. *)
LEMMA CollapseProperties ==
  ASSUME Types, NEW c \in Cursor, NEW sc \in ScanType,
         \A f \in Feeds : c.pos[f] <= sc.len[f] /\ sc.len[f] <= Len(feed[f]),
         Covered(c), Passed(c)
  PROVE  LET d == Collapse(c, sc) IN
         /\ d \in Cursor
         /\ \A x \in DOMAIN c \ {"pos", "cov"} : d[x] = c[x]
         /\ d = [c EXCEPT !.pos = d.pos, !.cov = d.cov]
         /\ \A f \in Feeds : /\ d.pos[f] \in c.pos[f] .. sc.len[f]
                             /\ \A k \in UnreadIn(c, sc, f) : d.pos[f] < k[2]
         /\ d.cov = {b \in c.cov : b[2] > d.pos[b[1]]}
         /\ Covered(d) /\ Passed(d)
<1> DEFINE pos == [f \in Feeds |-> Prefix(c, sc, f)]
           cov == {b \in c.cov : b[2] > pos[b[1]]}
           d == Collapse(c, sc)
<1>1. d = [c EXCEPT !.pos = pos, !.cov = cov]
  BY DEF Collapse
<1>2. \A f \in Feeds : /\ pos[f] \in c.pos[f] .. sc.len[f]
                       /\ \A k \in UnreadIn(c, sc, f) : pos[f] < k[2]
  <2> SUFFICES ASSUME NEW f \in Feeds
               PROVE  /\ pos[f] \in c.pos[f] .. sc.len[f]
                      /\ \A k \in UnreadIn(c, sc, f) : pos[f] < k[2]
    OBVIOUS
  <2>1. c.pos[f] \in Nat /\ sc.len[f] \in Nat /\ c.pos[f] <= sc.len[f]
    BY DEF Cursor, ScanType
  <2> QED BY <2>1, PrefixProperties
<1>3. pos \in [Feeds -> Nat]
  <2>1. \A f \in Feeds : c.pos[f] \in Nat /\ sc.len[f] \in Nat
    BY DEF Cursor, ScanType
  <2>2. \A f \in Feeds : pos[f] \in Nat
    BY <1>2, <2>1
  <2> QED BY <2>2
<1> HIDE DEF pos
<1>4. cov \in SUBSET Bits /\ cov \subseteq c.cov
  BY DEF Cursor
<1> HIDE DEF cov
<1>5. /\ d \in Cursor /\ d.pos = pos /\ d.cov = cov
      /\ d.ws = c.ws /\ d.from = c.from
  BY <1>1, <1>3, <1>4 DEF Cursor
<1>6. \A x \in DOMAIN c \ {"pos", "cov"} : d[x] = c[x]
  BY <1>1
<1>7. d = [c EXCEPT !.pos = d.pos, !.cov = d.cov]
  BY <1>1, <1>5
<1> HIDE DEF d
<1>8. Covered(d)
  BY <1>4, <1>5 DEF Covered, Within
<1>9. Passed(d)
  <2> SUFFICES ASSUME NEW k \in Keys, Eligible(d, k), k[2] <= pos[k[1]]
               PROVE  Shown(d, k)
    BY <1>5 DEF Passed
  <2>1. Eligible(c, k)
    BY <1>5 DEF Eligible
  <2>2. k[1] \in Feeds /\ k[2] \in Nat /\ k[2] >= 1 /\ k = <<k[1], k[2]>>
    BY NudgeAssumption DEF Keys
  <2>3. CASE k[2] <= c.pos[k[1]]
    <3>1. Shown(c, k)
      BY <2>1, <2>3 DEF Passed
    <3> QED BY <1>5, <3>1 DEF Shown, Within
  <2>4. CASE ~(k[2] <= c.pos[k[1]])
    <3>1. c.pos[k[1]] \in Nat /\ sc.len[k[1]] \in Nat /\ pos[k[1]] \in Nat
      BY <1>3, <2>2 DEF Cursor, ScanType
    <3>2. k[2] \in c.pos[k[1]] + 1 .. sc.len[k[1]]
      BY <1>2, <2>2, <2>4, <3>1
    <3>3. k \notin UnreadIn(c, sc, k[1])
      BY <1>2, <2>2, <3>1
    <3>4. CASE sc.av[k[1]] = "ok"
      <4>1. k \in {k[1]} \X (c.pos[k[1]] + 1 .. sc.len[k[1]])
        BY <2>2, <3>2
      <4>2. Acknowledged(c.cov, k)
        BY <2>1, <3>3, <3>4, <4>1 DEF UnreadIn
      <4>3. PICK fld \in Fields : \A u \in scene.units : <<k[1], k[2], fld, u>> \in c.cov
        BY <4>2 DEF Acknowledged
      <4>4. \A u \in scene.units : Within(d, <<k[1], k[2], fld, u>>)
        BY <1>5, <4>3 DEF Covered, Within
      <4> QED BY <4>4 DEF Shown
    <3>5. CASE sc.av[k[1]] # "ok"
      <4>1. pos[k[1]] = c.pos[k[1]]
        BY <2>2, <3>5 DEF pos, Prefix
      <4> QED BY <2>4, <4>1
    <3> QED BY <3>4, <3>5
  <2> QED BY <2>3, <2>4
<1>10. d.cov = {b \in c.cov : b[2] > d.pos[b[1]]}
  BY <1>5 DEF cov
<1> QED BY <1>2, <1>5, <1>6, <1>7, <1>8, <1>9, <1>10 DEF d

(* Marks and reservations say nothing about what was read. *)
SameRead(c, d) ==
    d.ws = c.ws /\ d.from = c.from /\ d.pos = c.pos /\ d.cov = c.cov /\ d.rev = c.rev

LEMMA ReadStays ==
  ASSUME NEW c, NEW d, SameRead(c, d)
  PROVE  /\ Covered(c) => Covered(d)
         /\ Passed(c) => Passed(d)
         /\ \A sc : Unread(c, sc) = Unread(d, sc)
<1>1. \A b : Within(c, b) <=> Within(d, b)
  BY DEF SameRead, Within
<1>2. \A k : Eligible(c, k) <=> Eligible(d, k)
  BY DEF SameRead, Eligible
<1>3. Covered(c) => Covered(d)
  BY <1>1 DEF SameRead, Covered
<1>4. Passed(c) => Passed(d)
  BY <1>1, <1>2 DEF SameRead, Passed, Shown
<1>5. ASSUME NEW sc PROVE Unread(c, sc) = Unread(d, sc)
  <2>1. \A f \in Feeds : UnreadIn(c, sc, f) = UnreadIn(d, sc, f)
    BY <1>2 DEF SameRead, UnreadIn
  <2> QED BY <2>1 DEF Unread
<1> QED BY <1>3, <1>4, <1>5

LEMMA MarksType ==
  ASSUME NEW c \in Cursor, NEW v \in 1 .. 3, NEW h \in Nat, NEW l \in Nat, NEW g \in Nat
  PROVE  [c EXCEPT !.v = v, !.high = h, !.last = l, !.gen = g] \in Cursor
BY DEF Cursor

(* The cursor that a transaction works on. *)
LEMMA VirtualProperties ==
  ASSUME CursorInv, NEW ep \in Epoch
  PROVE  LET c == Virtual(ep) IN
         /\ c \in Cursor /\ Good(c) /\ c.ws = ep.ws /\ c.from = ep.from
         /\ cursor # NoCursor => c.rev >= cursor.rev
         /\ \/ /\ cursor # NoCursor /\ c.rev = cursor.rev /\ SameEpoch(cursor, ep)
               /\ c.pos = cursor.pos /\ c.cov = cursor.cov /\ c.pending = cursor.pending
               /\ cursor.ws = ep.ws /\ cursor.from = ep.from
            \/ /\ ~SameEpoch(cursor, ep) /\ c.pending = {}
               /\ \A f \in Feeds : c.pos[f] = 0
<1>1. Types /\ feed \in [Feeds -> Seq(Record)]
  BY DEF CursorInv, Types
<1>2. CASE SameEpoch(cursor, ep)
  <2>1. cursor \in Cursor /\ Good(cursor) /\ cursor.ws = ep.ws /\ cursor.from = ep.from
    BY <1>1, <1>2 DEF SameEpoch, CursorInv, Types
  <2> DEFINE c == Migrated(cursor)
  <2>2. /\ c \in Cursor /\ c.pos = cursor.pos /\ c.cov = cursor.cov
        /\ c.pending = cursor.pending /\ c.ws = cursor.ws /\ c.from = cursor.from
        /\ c.rev = cursor.rev
    <3>1. CASE cursor.v = 1
      <4>1. c = [cursor EXCEPT !.v = 3, !.high = 0, !.last = 0, !.gen = 1]
        BY <3>1 DEF Migrated
      <4> HIDE DEF c
      <4>2. cursor \in Cursor
        BY <2>1
      <4>3. /\ c.pos = cursor.pos /\ c.cov = cursor.cov
            /\ c.pending = cursor.pending /\ c.ws = cursor.ws /\ c.from = cursor.from
            /\ c.rev = cursor.rev
        BY <4>1, <4>2 DEF Cursor
      <4>4. c \in Cursor
        <5>1. 3 \in 1 .. 3 /\ 0 \in Nat /\ 1 \in Nat
          OBVIOUS
        <5>2. [cursor EXCEPT !.v = 3, !.high = 0, !.last = 0, !.gen = 1] \in Cursor
          BY <4>2, <5>1, MarksType
        <5> QED BY <4>1, <5>2
      <4> QED BY <4>3, <4>4
    <3>2. CASE cursor.v # 1
      <4>1. c = [cursor EXCEPT !.v = 3]
        BY <3>2 DEF Migrated
      <4> HIDE DEF c
      <4> QED BY <2>1, <4>1 DEF Cursor
    <3> QED BY <3>1, <3>2
  <2>3. Virtual(ep) = c
    BY <1>2 DEF Virtual
  <2> HIDE DEF c
  <2>4. Covered(c) /\ Passed(c)
    BY <2>1, <2>2, ReadStays DEF SameRead, Good
  <2>5. Reserved(c)
    BY <2>1, <2>2 DEF Good, Reserved, Within
  <2>6. \A f \in Feeds : c.pos[f] <= Len(feed[f])
    BY <2>1, <2>2 DEF Good
  <2>7. c.rev >= cursor.rev
    BY <2>1, <2>2 DEF Cursor
  <2>8. Good(c)
    BY <2>4, <2>5, <2>6 DEF Good
  <2> QED BY <1>2, <2>1, <2>2, <2>3, <2>7, <2>8 DEF SameEpoch
<1>3. CASE ~SameEpoch(cursor, ep)
  <2> DEFINE c == FirstCursor(ep)
  <2>1. Virtual(ep) = c
    BY <1>3 DEF Virtual
  <2>2. Rev \in Nat /\ (cursor # NoCursor => Rev = cursor.rev)
    BY <1>1 DEF Rev, Types, Cursor
  <2>3. (IF cursor = NoCursor \/ cursor.v = 1 THEN 1 ELSE cursor.gen) \in Nat
    BY <1>1 DEF Types, Cursor
  <2>4. [f \in Feeds |-> 0] \in [Feeds -> Nat]
    OBVIOUS
  <2>5. /\ c \in Cursor /\ c.pending = {} /\ c.cov = {} /\ c.ws = ep.ws
        /\ c.from = ep.from /\ c.rev = Rev + 1 /\ c.pos = [f \in Feeds |-> 0]
    BY <2>2, <2>3, <2>4 DEF FirstCursor, Cursor, Epoch
  <2> HIDE DEF c
  <2>6. \A f \in Feeds : c.pos[f] = 0
    BY <2>5
  <2>7. \A f \in Feeds : c.pos[f] <= Len(feed[f])
    BY <1>1, <2>6
  <2>8. Covered(c) /\ Reserved(c)
    BY <2>5 DEF Covered, Reserved
  <2>9. Passed(c)
    <3>1. \A k \in Keys : k[1] \in Feeds /\ k[2] \in Nat /\ k[2] >= 1
      BY NudgeAssumption DEF Keys
    <3>2. \A k \in Keys : ~(k[2] <= c.pos[k[1]])
      BY <2>6, <3>1
    <3> QED BY <3>2 DEF Passed
  <2>10. cursor # NoCursor => c.rev >= cursor.rev
    BY <2>2, <2>5
  <2>11. Good(c)
    BY <2>7, <2>8, <2>9 DEF Good
  <2> QED BY <1>3, <2>1, <2>5, <2>6, <2>10, <2>11
<1> QED BY <1>2, <1>3

LEMMA EstablishProperties ==
  ASSUME CursorInv, NEW c \in Cursor, NEW h
  PROVE  /\ Establish(c, h) \in Cursor
         /\ SameRead(c, Establish(c, h)) /\ Establish(c, h).pending = c.pending
<1> DEFINE d == Establish(c, h)
<1>1. CASE ~Claude \/ h.op # "prompt" \/ cursor = NoCursor
  <2>1. d = c
    BY <1>1 DEF Establish
  <2> QED BY <2>1 DEF SameRead
<1>2. CASE ~(~Claude \/ h.op # "prompt" \/ cursor = NoCursor)
  <2> DEFINE carry == h.flag /\ SameEpoch(cursor, c) /\ cursor.v = 3
             i == IF carry /\ c.informed = c.gen THEN c.gen + 1 ELSE c.informed
             l == IF carry /\ c.last = c.gen THEN c.gen + 1 ELSE c.last
  <2>1. d = [c EXCEPT !.gen = c.gen + 1, !.informed = i, !.last = l]
    BY <1>2 DEF Establish, Cursor
  <2>2. i \in Nat /\ l \in Nat /\ c.gen + 1 \in Nat
    BY DEF Cursor
  <2> HIDE DEF i, l
  <2> QED BY <2>1, <2>2 DEF Cursor, SameRead
<1> QED BY <1>1, <1>2

LEMMA TurnOfType ==
  ASSUME NEW c \in Cursor, NEW t \in Nat
  PROVE  TurnOf(c, t) \in Nat
BY DEF TurnOf, Cursor

(* An announcement, or a Stop: nothing is taken for read that was not. *)
LEMMA ClaimProperties ==
  ASSUME CursorInv, NEW ep \in Epoch, NEW sc \in ScanType, NEW t \in Nat, NEW h,
         h.op \in {"prompt", "tool", "stop"},
         \A f \in Feeds : Virtual(ep).pos[f] <= sc.len[f] /\ sc.len[f] <= Len(feed[f])
  PROVE  LET d == Claim(h, ep, sc, t).cursor IN
         /\ d \in Cursor /\ Good(d) /\ d.ws = ep.ws /\ d.from = ep.from
         /\ d.rev = Virtual(ep).rev
         /\ Claim(h, ep, sc, t).sent \in Seq(Delivery \union Read)
<1> DEFINE c0 == Establish(Virtual(ep), h)
           ct == TurnOf(c0, t)
           count == Cardinality(Unread(c0, sc))
           c1 == Attributed(c0, h, ep, count, ct)
           sameTurn == ct \in {c1.last, c1.informed}
           c2 == Retire(c1, h, sameTurn)
           due == ~Latched(h, c2) /\ Due(h, c2, count, sameTurn)
           c3 == IF Latched(h, c2) THEN c2 ELSE Collapse(c2, sc)
           high == IF count > c3.high THEN count ELSE c3.high
           c4 == IF due
                 THEN [c3 EXCEPT !.stop = IF h.op = "stop" THEN c3.rev ELSE @,
                                 !.high = high, !.last = ct]
                 ELSE IF ~Latched(h, c2) /\ count = 0 /\ ~Incomplete(c2, sc)
                 THEN [c3 EXCEPT !.outside = FALSE]
                 ELSE c3
           told == [op |-> h.op, ws |-> ep.ws, from |-> ep.from, rev |-> c4.rev,
                    count |-> count, turn |-> ct, stage |-> "claimed",
                    before |-> <<c1.high, c1.last>>, after |-> <<high, ct>>]
<1>1. /\ Claim(h, ep, sc, t).cursor = c4
      /\ Claim(h, ep, sc, t).sent = IF ~due THEN <<>> ELSE <<told>>
  BY DEF Claim
<1>2. Types /\ Virtual(ep) \in Cursor /\ Good(Virtual(ep))
      /\ Virtual(ep).ws = ep.ws /\ Virtual(ep).from = ep.from
  BY VirtualProperties DEF CursorInv
<1>3. /\ c0 \in Cursor /\ SameRead(Virtual(ep), c0)
      /\ c0.pending = Virtual(ep).pending
  BY <1>2, EstablishProperties
<1> HIDE DEF c0
<1>4. ct \in Nat /\ count \in Nat
  BY <1>2, <1>3, TurnOfType, UnreadFinite
<1> HIDE DEF ct, count
<1>5. c1 \in Cursor /\ SameRead(c0, c1) /\ c1.pending = c0.pending
  <2>1. CASE ~SameEpoch(cursor, ep) \/ cursor.v # 1 \/ cursor.high = 0
    <3>1. c1 = c0
      BY <2>1 DEF Attributed
    <3> QED BY <1>3, <3>1 DEF SameRead
  <2>2. CASE ~(~SameEpoch(cursor, ep) \/ cursor.v # 1 \/ cursor.high = 0)
    <3> DEFINE l == IF count > 0 /\ h.op # "prompt" THEN ct ELSE 0
    <3>1. c1 = [c0 EXCEPT !.high = count, !.last = l]
      BY <2>2 DEF Attributed
    <3>2. l \in Nat
      BY <1>4
    <3> HIDE DEF l
    <3> QED BY <1>3, <1>4, <3>1, <3>2 DEF Cursor, SameRead
  <2> QED BY <2>1, <2>2
<1> HIDE DEF c1, sameTurn
<1>6. c2 \in Cursor /\ SameRead(c1, c2) /\ c2.pending = c1.pending
  BY <1>5 DEF Retire, Cursor, SameRead
<1> HIDE DEF c2
<1>7. SameRead(Virtual(ep), c2) /\ c2.pending = Virtual(ep).pending
  BY <1>3, <1>5, <1>6 DEF SameRead
<1>8. Covered(c2) /\ Passed(c2)
  BY <1>2, <1>7, ReadStays DEF Good
<1>9. Reserved(c2)
  BY <1>2, <1>7 DEF Good, Reserved, SameRead, Within
<1>10. \A f \in Feeds : c2.pos[f] <= sc.len[f] /\ sc.len[f] <= Len(feed[f])
  BY <1>7 DEF SameRead
<1>11. /\ c3 \in Cursor /\ Covered(c3) /\ Passed(c3)
       /\ c3.ws = c2.ws /\ c3.from = c2.from /\ c3.rev = c2.rev
       /\ c3.pending = c2.pending
       /\ \A f \in Feeds : c3.pos[f] <= Len(feed[f])
  <2>1. feed \in [Feeds -> Seq(Record)]
    BY <1>2 DEF Types
  <2>2. \A f \in Feeds : c2.pos[f] \in Nat /\ sc.len[f] \in Nat /\ Len(feed[f]) \in Nat
    BY <1>6, <2>1 DEF Cursor, ScanType
  <2>3. CASE Latched(h, c2)
    <3>1. \A f \in Feeds : c2.pos[f] <= Len(feed[f])
      BY <1>10, <2>2
    <3> QED BY <1>6, <1>8, <2>3, <3>1
  <2>4. CASE ~Latched(h, c2)
    <3> DEFINE d == Collapse(c2, sc)
    <3>1. /\ d \in Cursor /\ Covered(d) /\ Passed(d)
          /\ \A x \in DOMAIN c2 \ {"pos", "cov"} : d[x] = c2[x]
          /\ \A f \in Feeds : d.pos[f] \in c2.pos[f] .. sc.len[f]
      BY <1>2, <1>6, <1>8, <1>10, CollapseProperties
    <3>2. {"ws", "from", "rev", "pending"} \subseteq DOMAIN c2 \ {"pos", "cov"}
      BY <1>6 DEF Cursor
    <3> HIDE DEF d
    <3>3. \A f \in Feeds : d.pos[f] <= Len(feed[f])
      BY <1>10, <2>2, <3>1
    <3>4. c3 = d
      BY <2>4 DEF d
    <3> QED BY <3>1, <3>2, <3>3, <3>4
  <2> QED BY <2>3, <2>4
<1> HIDE DEF c3
<1>12. high \in Nat
  BY <1>4, <1>11 DEF Cursor
<1> HIDE DEF high
<1>13. c4 \in Cursor /\ SameRead(c3, c4) /\ c4.pending = c3.pending
  <2>1. CASE due
    <3> DEFINE s == IF h.op = "stop" THEN c3.rev ELSE c3.stop
    <3>1. c4 = [c3 EXCEPT !.stop = s, !.high = high, !.last = ct]
      BY <1>11, <2>1 DEF Cursor
    <3>2. s \in Nat
      BY <1>11 DEF Cursor
    <3> HIDE DEF s, due
    <3> QED BY <1>4, <1>11, <1>12, <3>1, <3>2 DEF Cursor, SameRead
  <2>2. CASE ~due
    <3>1. c4 \in {c3, [c3 EXCEPT !.outside = FALSE]}
      BY <2>2
    <3> HIDE DEF c4
    <3> QED BY <1>11, <3>1 DEF Cursor, SameRead
  <2> QED BY <2>1, <2>2
<1> HIDE DEF c4, due
<1>14. Covered(c4) /\ Passed(c4)
  BY <1>11, <1>13, ReadStays
<1>15. Reserved(c4) /\ c4.ws = ep.ws /\ c4.from = ep.from /\ c4.rev = Virtual(ep).rev
  BY <1>2, <1>7, <1>9, <1>11, <1>13 DEF Reserved, SameRead, Within
<1>16. \A f \in Feeds : c4.pos[f] <= Len(feed[f])
  BY <1>11, <1>13 DEF SameRead
<1>17. told \in Delivery
  <2>1. c1.high \in Nat /\ c1.last \in Nat /\ c4.rev \in Nat
    BY <1>5, <1>13 DEF Cursor
  <2> QED BY <1>4, <1>12, <2>1 DEF Delivery, Epoch
<1> HIDE DEF told
<1>18. (IF ~due THEN <<>> ELSE <<told>>) \in Seq(Delivery \union Read)
  <2>1. told \in Delivery \union Read
    BY <1>17
  <2>2. <<>> \in Seq(Delivery \union Read) /\ <<told>> \in Seq(Delivery \union Read)
    BY <2>1
  <2> QED BY <2>2
<1>19. Good(c4)
  BY <1>14, <1>15, <1>16 DEF Good
<1> QED BY <1>1, <1>13, <1>15, <1>18, <1>19

-----------------------------------------------------------------------------
(* Reads *)

(* d has taken text that was unread in c. *)
NewText(c, d) == \E b \in Taken(d) \ Taken(c) : Eligible(c, b)

LEMMA BitsAreFour ==
  ASSUME Types, NEW b \in Bits
  PROVE  b[1] \in Feeds /\ b[1] \in scene.feeds /\ b[2] \in Nat /\ b[2] >= 1
BY SceneFacts DEF Bits

LEMMA PreviewProperties ==
  ASSUME Types, NEW c \in Cursor, NEW sc \in ScanType, NEW text \in SUBSET Bits,
         \A f \in Feeds : c.pos[f] <= sc.len[f] /\ sc.len[f] <= Len(feed[f]),
         Covered(c), Passed(c), \A b \in text : Within(c, b)
  PROVE  LET pv == Preview(c, text, sc)
             d == pv.cursor
         IN  /\ d \in Cursor /\ Covered(d) /\ Passed(d)
             /\ d.ws = c.ws /\ d.from = c.from /\ d.rev = c.rev /\ d.pending = c.pending
             /\ \A f \in Feeds : d.pos[f] <= sc.len[f]
             /\ pv.advanced => NewText(c, d)
<1> DEFINE base == Collapse(c, sc)
           added == {b \in text : <<b[1], b[2]>> \in Unread(c, sc)}
           mid == [base EXCEPT !.cov = @ \union added]
           d == Collapse(mid, sc)
<1>1. /\ Preview(c, text, sc).cursor = d
      /\ Preview(c, text, sc).advanced <=> ~(added \subseteq base.cov)
  BY DEF Preview
<1>2. /\ base \in Cursor
      /\ \A x \in DOMAIN c \ {"pos", "cov"} : base[x] = c[x]
      /\ \A f \in Feeds : /\ base.pos[f] \in c.pos[f] .. sc.len[f]
                          /\ \A k \in UnreadIn(c, sc, f) : base.pos[f] < k[2]
      /\ base.cov = {b \in c.cov : b[2] > base.pos[b[1]]}
      /\ Covered(base) /\ Passed(base)
  BY CollapseProperties
<1>3. {"ws", "from", "rev", "pending"} \subseteq DOMAIN c \ {"pos", "cov"}
  BY DEF Cursor
<1>4. base.ws = c.ws /\ base.from = c.from /\ base.rev = c.rev /\ base.pending = c.pending
  BY <1>2, <1>3
<1>5. added \in SUBSET Bits /\ \A b \in added : Within(c, b)
  OBVIOUS
<1> HIDE DEF base, added
<1>6. /\ mid \in Cursor /\ mid.pos = base.pos /\ mid.cov = base.cov \union added
      /\ mid.ws = c.ws /\ mid.from = c.from /\ mid.rev = c.rev /\ mid.pending = c.pending
  BY <1>2, <1>4, <1>5 DEF Cursor
<1> HIDE DEF mid
<1>7. Covered(mid)
  BY <1>2, <1>4, <1>5, <1>6 DEF Covered, Within
<1>8. Passed(mid)
  <2>1. \A k : (Eligible(mid, k) <=> Eligible(base, k)) /\ (Shown(mid, k) <=> Shown(base, k))
    BY <1>4, <1>6 DEF Eligible, Shown, Within
  <2> QED BY <1>2, <1>6, <2>1 DEF Passed
<1>9. \A f \in Feeds : /\ c.pos[f] \in Nat /\ base.pos[f] \in Nat /\ sc.len[f] \in Nat
                       /\ mid.pos[f] <= sc.len[f]
  BY <1>2, <1>6 DEF Cursor, ScanType
<1>10. /\ d \in Cursor
       /\ \A x \in DOMAIN mid \ {"pos", "cov"} : d[x] = mid[x]
       /\ \A f \in Feeds : d.pos[f] \in mid.pos[f] .. sc.len[f]
       /\ d.cov = {b \in mid.cov : b[2] > d.pos[b[1]]}
       /\ Covered(d) /\ Passed(d)
  BY <1>6, <1>7, <1>8, <1>9, CollapseProperties
<1>11. {"ws", "from", "rev", "pending"} \subseteq DOMAIN mid \ {"pos", "cov"}
  BY <1>6 DEF Cursor
<1> HIDE DEF d
<1>12. d.ws = c.ws /\ d.from = c.from /\ d.rev = c.rev /\ d.pending = c.pending
  BY <1>6, <1>10, <1>11
<1>13. \A f \in Feeds : d.pos[f] <= sc.len[f] /\ d.pos[f] \in Nat
  BY <1>9, <1>10 DEF Cursor
<1>14. ASSUME ~(added \subseteq base.cov)
       PROVE  NewText(c, d)
  <2>1. PICK b \in added : b \notin base.cov
    BY <1>14
  <2>2. /\ b \in Bits /\ <<b[1], b[2]>> \in Unread(c, sc)
        /\ b[1] \in Feeds /\ b[2] \in Nat
    BY <1>5, BitsAreFour DEF added
  <2>3. <<b[1], b[2]>> \in UnreadIn(c, sc, b[1])
    <3>1. PICK f \in Feeds : <<b[1], b[2]>> \in UnreadIn(c, sc, f)
      BY <2>2 DEF Unread
    <3>2. f = b[1]
      BY <3>1 DEF UnreadIn
    <3> QED BY <3>1, <3>2
  <2>4. Eligible(c, b) /\ b[2] \in c.pos[b[1]] + 1 .. sc.len[b[1]]
    BY <2>3 DEF UnreadIn, Eligible
  <2>5. base.pos[b[1]] < b[2]
    BY <1>2, <2>2, <2>3
  <2>6. b \notin c.cov
    <3>1. b[2] > base.pos[b[1]]
      BY <1>9, <2>2, <2>5
    <3> QED BY <1>2, <2>1, <3>1
  <2>7. b \notin Taken(c)
    BY <1>9, <2>2, <2>4, <2>6 DEF Taken
  <2>8. b \in Taken(d)
    <3>1. b \in mid.cov
      BY <1>6, <2>1
    <3>2. b \in d.cov \/ ~(b[2] > d.pos[b[1]])
      BY <1>10, <3>1
    <3>3. b \in d.cov \/ b[2] <= d.pos[b[1]]
      BY <1>13, <2>2, <3>2
    <3> QED BY <2>2, <3>3 DEF Taken
  <2> QED BY <2>4, <2>7, <2>8 DEF NewText
<1> QED BY <1>1, <1>10, <1>12, <1>13, <1>14

(* What a read hook may write. *)
ReadWrites(c, d, n) ==
    /\ d \in Cursor /\ Covered(d) /\ Passed(d)
    /\ d.ws = c.ws /\ d.from = c.from
    /\ \A f \in Feeds : d.pos[f] <= Len(feed[f])
    /\ \A p \in d.pending :
          /\ p.nonce <= n
          /\ \A t \in Tools : out[t].nonce = p.nonce =>
                \A b \in out[t].text : Within(d, b)
    /\ \/ d.rev = c.rev
       \/ d.rev = c.rev + 1 /\ NewText(c, d)

(* Only reservations change: those of before, and one of a new nonce. *)
LEMMA PendingWrites ==
  ASSUME Types, Nonces, NEW c \in Cursor, Good(c), NEW n \in {nonces, nonces + 1},
         NEW ps \in SUBSET Pending,
         \A q \in ps : \/ \E p \in c.pending : q.nonce = p.nonce
                       \/ n = nonces + 1 /\ q.nonce = nonces + 1
  PROVE  ReadWrites(c, [c EXCEPT !.pending = ps], n)
<1> DEFINE d == [c EXCEPT !.pending = ps]
<1>1. /\ d \in Cursor /\ d.pending = ps /\ SameRead(c, d)
  BY DEF Cursor, SameRead
<1> HIDE DEF d
<1>2. Covered(d) /\ Passed(d)
  BY <1>1, ReadStays DEF Good
<1>3. nonces \in Nat /\ (\A t \in Tools : out[t].nonce \in Nat) /\ \A p \in c.pending : p.nonce \in Nat
  BY DEF Types, Output, Cursor, Pending
<1>4. ASSUME NEW q \in ps
      PROVE  /\ q.nonce <= n
             /\ \A t \in Tools : out[t].nonce = q.nonce =>
                   \A b \in out[t].text : Within(d, b)
  <2>1. CASE \E p \in c.pending : q.nonce = p.nonce
    <3>1. PICK p \in c.pending : q.nonce = p.nonce
      BY <2>1
    <3>2. /\ p.nonce <= nonces /\ p.nonce \in Nat
          /\ \A t \in Tools : out[t].nonce = p.nonce => \A b \in out[t].text : Within(c, b)
      BY <1>3 DEF Good, Reserved
    <3>3. p.nonce <= n
      BY <1>3, <3>2
    <3>4. \A b : Within(c, b) <=> Within(d, b)
      BY <1>1 DEF SameRead, Within
    <3> QED BY <3>1, <3>2, <3>3, <3>4
  <2>2. CASE n = nonces + 1 /\ q.nonce = nonces + 1
    <3>1. \A t \in Tools : out[t].nonce <= nonces
      BY DEF Nonces
    <3>2. \A t \in Tools : out[t].nonce # q.nonce
      BY <1>3, <2>2, <3>1
    <3>3. q.nonce <= n
      BY <1>3, <2>2
    <3> QED BY <3>2, <3>3
  <2> QED BY <2>1, <2>2
<1>5. \A f \in Feeds : d.pos[f] <= Len(feed[f])
  BY <1>1 DEF SameRead, Good
<1>6. ReadWrites(c, d, n)
  BY <1>1, <1>2, <1>4, <1>5 DEF ReadWrites, SameRead
<1> QED BY <1>6 DEF d

LEMMA CommitWrites ==
  ASSUME Types, Nonces, NEW c \in Cursor, Good(c), NEW sc \in ScanType, NEW t \in Nat,
         NEW h \in HookCalls, h.tool \in Tools,
         \A f \in Feeds : c.pos[f] <= sc.len[f] /\ sc.len[f] <= Len(feed[f]),
         NEW r \in Commit(c, h, sc, t)
  PROVE  ReadWrites(c, r, nonces)
<1>1. PICK p \in Matching(c, h.tool, t) :
        LET pv == Preview(c, p.text, sc)
            n == [pv.cursor EXCEPT !.pending = @ \ {p}]
            left == Unread(n, sc) # {} \/ Incomplete(n, sc)
        IN  /\ p.text = out[h.tool].text /\ p.nonce = out[h.tool].nonce
            /\ \/ r = n /\ ~pv.advanced
               \/ r = [c EXCEPT !.pending = @ \ {p}]
               \/ /\ r = [Rearm(n, TurnOf(c, t)) EXCEPT
                            !.outside = left /\ (out[h.tool].kind = "context" \/ c.outside)]
                  /\ pv.advanced
  BY DEF Commit
<1> DEFINE pv == Preview(c, p.text, sc)
           d == pv.cursor
           n == [d EXCEPT !.pending = @ \ {p}]
           outside == (Unread(n, sc) # {} \/ Incomplete(n, sc))
                      /\ (out[h.tool].kind = "context" \/ c.outside)
           turned == TurnOf(c, t)
<1>2. p \in c.pending /\ p.text = out[h.tool].text /\ p.nonce = out[h.tool].nonce
      /\ c.pending \in SUBSET Pending /\ p.text \in SUBSET Bits
  BY <1>1 DEF Matching, Cursor, Pending
<1>3. \A b \in p.text : Within(c, b)
  BY <1>2 DEF Good, Reserved
<1>4. /\ d \in Cursor /\ Covered(d) /\ Passed(d)
      /\ d.ws = c.ws /\ d.from = c.from /\ d.rev = c.rev /\ d.pending = c.pending
      /\ \A f \in Feeds : d.pos[f] <= sc.len[f]
      /\ pv.advanced => NewText(c, d)
  BY <1>2, <1>3, PreviewProperties DEF Good
<1>5. turned \in Nat /\ outside \in BOOLEAN
  BY TurnOfType
<1>6. \/ r = n
      \/ r = [c EXCEPT !.pending = @ \ {p}]
      \/ r = [Rearm(n, turned) EXCEPT !.outside = outside] /\ pv.advanced
  BY <1>1
<1> HIDE DEF d, pv, turned, outside
<1>7. /\ n \in Cursor /\ SameRead(d, n) /\ n.pending = c.pending \ {p}
  BY <1>2, <1>4 DEF Cursor, SameRead
<1>8. \A f \in Feeds : d.pos[f] <= Len(feed[f])
  <2>1. \A f \in Feeds : d.pos[f] \in Nat /\ sc.len[f] \in Nat /\ Len(feed[f]) \in Nat
    BY <1>4 DEF Cursor, ScanType, Types
  <2> QED BY <1>4, <2>1
<1>9. \A q \in c.pending :
        /\ q.nonce <= nonces
        /\ \A u \in Tools : out[u].nonce = q.nonce => \A b \in out[u].text : Within(c, b)
  BY DEF Good, Reserved
<1> HIDE DEF n
<1>10. CASE r = n
  <2>1. Covered(n) /\ Passed(n)
    BY <1>4, <1>7, ReadStays
  <2>2. n.ws = c.ws /\ n.from = c.from /\ n.rev = c.rev /\ n.pos = d.pos
    BY <1>4, <1>7 DEF SameRead
  <2>3. \A b : Within(c, b) <=> Within(n, b)
    BY <2>2 DEF Within
  <2> QED BY <1>7, <1>8, <1>9, <1>10, <2>1, <2>2, <2>3 DEF ReadWrites
<1>11. CASE r = [c EXCEPT !.pending = @ \ {p}]
  <2>1. c.pending \ {p} \in SUBSET Pending
    BY <1>2
  <2>2. r = [c EXCEPT !.pending = c.pending \ {p}]
    BY <1>11 DEF Cursor
  <2>3. nonces \in {nonces, nonces + 1}
    OBVIOUS
  <2> QED BY <2>1, <2>2, <2>3, PendingWrites
<1>12. CASE r = [Rearm(n, turned) EXCEPT !.outside = outside] /\ pv.advanced
  <2> DEFINE m == Rearm(n, turned)
  <2>1. /\ m \in Cursor /\ m.rev = n.rev + 1 /\ m.ws = n.ws /\ m.from = n.from
        /\ m.pos = n.pos /\ m.cov = n.cov /\ m.pending = n.pending
    <3>1. m = [n EXCEPT !.rev = n.rev + 1, !.stop = 0, !.high = 0, !.last = 0,
                        !.informed = turned]
      BY <1>7 DEF Rearm, Cursor
    <3>2. n.rev + 1 \in Nat /\ 0 \in Nat
      BY <1>7 DEF Cursor
    <3> HIDE DEF m
    <3> QED BY <1>5, <1>7, <3>1, <3>2 DEF Cursor
  <2> HIDE DEF m
  <2>2. /\ r \in Cursor /\ r.rev = n.rev + 1 /\ r.ws = n.ws /\ r.from = n.from
        /\ r.pos = n.pos /\ r.cov = n.cov /\ r.pending = n.pending
    <3>1. r = [m EXCEPT !.outside = outside]
      BY <1>12 DEF m
    <3> QED BY <1>5, <2>1, <3>1 DEF Cursor
  <2>3. /\ r.ws = c.ws /\ r.from = c.from /\ r.rev = c.rev + 1
        /\ r.pos = d.pos /\ r.cov = d.cov
    BY <1>4, <1>7, <2>2 DEF SameRead
  <2>4. \A b : (Within(c, b) <=> Within(r, b)) /\ (Within(d, b) <=> Within(r, b))
    BY <1>4, <2>3 DEF Within
  <2>5. Covered(r)
    BY <1>4, <2>3, <2>4 DEF Covered
  <2>6. Passed(r)
    <3>1. \A k : (Eligible(r, k) <=> Eligible(d, k)) /\ (Shown(r, k) <=> Shown(d, k))
      BY <1>4, <2>3, <2>4 DEF Eligible, Shown
    <3> QED BY <1>4, <2>3, <3>1 DEF Passed
  <2>7. NewText(c, r)
    <3>1. NewText(c, d)
      BY <1>4, <1>12
    <3>2. Taken(d) = Taken(r)
      BY <2>3 DEF Taken
    <3> QED BY <3>1, <3>2 DEF NewText
  <2> QED BY <1>7, <1>8, <1>9, <2>2, <2>3, <2>4, <2>5, <2>6, <2>7 DEF ReadWrites
<1> QED BY <1>6, <1>10, <1>11, <1>12

LEMMA ReadResultWrites ==
  ASSUME Types, Nonces, NEW ep \in Epoch, NEW sc \in ScanType, NEW t \in Nat,
         NEW h \in HookCalls, h.op \notin {"prompt", "tool", "stop"},
         Virtual(ep) \in Cursor, Good(Virtual(ep)),
         \A f \in Feeds : Virtual(ep).pos[f] <= sc.len[f] /\ sc.len[f] <= Len(feed[f]),
         NEW r \in ReadResult(h, ep, sc, t)
  PROVE  ReadWrites(Virtual(ep), r, IF h.op = "reserve" THEN nonces + 1 ELSE nonces)
<1> DEFINE c == Virtual(ep)
           turned == TurnOf(c, t)
<1>1. h.tool \in Tools /\ h.op \in {"reserve", "stage", "commit", "discard"}
  BY DEF HookCalls
<1>2. turned \in Nat
  BY TurnOfType
<1>3. c.pending \in SUBSET Pending /\ nonces \in Nat
  BY DEF Cursor, Types
<1>4. out[h.tool].text \in SUBSET Bits
  BY <1>1 DEF Types, Output
<1>5. CASE h.op = "reserve"
  <2> DEFINE live == {p \in c.pending : p.live}
             new == [tool |-> h.tool, nonce |-> nonces + 1, turn |-> turned,
                     live |-> TRUE, text |-> {}]
  <2>1. r = [c EXCEPT !.pending = live \union {new}]
    BY <1>5 DEF ReadResult, Reserve, AddPending
  <2>2. new \in Pending /\ new.nonce = nonces + 1
    BY <1>1, <1>2, <1>3 DEF Pending
  <2> HIDE DEF new
  <2>3. live \union {new} \in SUBSET Pending
    BY <1>3, <2>2
  <2>4. \A q \in live \union {new} :
          \/ \E p \in c.pending : q.nonce = p.nonce
          \/ nonces + 1 = nonces + 1 /\ q.nonce = nonces + 1
    BY <2>2
  <2>5. nonces + 1 \in {nonces, nonces + 1}
    OBVIOUS
  <2> HIDE DEF c, live
  <2>6. ReadWrites(c, [c EXCEPT !.pending = live \union {new}], nonces + 1)
    BY <2>3, <2>4, <2>5, PendingWrites DEF c
  <2> QED BY <1>5, <2>1, <2>6 DEF c
<1>6. CASE h.op = "stage"
  <2>1. PICK p \in Matching(c, h.tool, t) :
          r = [c EXCEPT !.pending = (@ \ {p}) \union
                  {[p EXCEPT !.text = out[h.tool].text]}]
    BY <1>6 DEF ReadResult, Stage
  <2> DEFINE ps == (c.pending \ {p}) \union {[p EXCEPT !.text = out[h.tool].text]}
  <2>2. p \in c.pending
    BY DEF Matching
  <2>3. [p EXCEPT !.text = out[h.tool].text] \in Pending
        /\ [p EXCEPT !.text = out[h.tool].text].nonce = p.nonce
    BY <1>3, <1>4, <2>2 DEF Pending
  <2>4. ps \in SUBSET Pending
    BY <1>3, <2>3
  <2>5. \A q \in ps : \E o \in c.pending : q.nonce = o.nonce
    BY <2>2, <2>3
  <2>6. r = [c EXCEPT !.pending = ps]
    BY <2>1 DEF Cursor
  <2> HIDE DEF ps, c
  <2>7. nonces \in {nonces, nonces + 1}
    OBVIOUS
  <2>8. ReadWrites(c, r, nonces)
    BY <2>4, <2>5, <2>6, <2>7, PendingWrites DEF c
  <2> QED BY <1>6, <2>8 DEF c
<1>7. CASE h.op = "discard"
  <2> DEFINE ps == {p \in c.pending : p.tool # h.tool \/ p.turn # turned}
  <2>1. r = [c EXCEPT !.pending = ps]
    BY <1>7 DEF ReadResult, Discard, Cursor
  <2>2. ps \in SUBSET Pending /\ \A q \in ps : \E o \in c.pending : q.nonce = o.nonce
    BY <1>3
  <2> HIDE DEF ps, c
  <2>3. nonces \in {nonces, nonces + 1}
    OBVIOUS
  <2>4. ReadWrites(c, r, nonces)
    BY <2>1, <2>2, <2>3, PendingWrites DEF c
  <2> QED BY <1>7, <2>4 DEF c
<1>8. CASE h.op = "commit"
  <2>1. r \in Commit(c, h, sc, t)
    BY <1>8 DEF ReadResult
  <2>2. ReadWrites(c, r, nonces)
    BY <1>1, <2>1, CommitWrites
  <2> QED BY <1>8, <2>2
<1> QED BY <1>1, <1>5, <1>6, <1>7, <1>8

-----------------------------------------------------------------------------
(* Steps *)

Rearms ==
    /\ cursor # NoCursor => cursor'.rev >= cursor.rev
    /\ (cursor # NoCursor /\ SameEpoch(cursor', cursor) /\ cursor'.rev # cursor.rev)
       => \E b \in Taken(cursor') \ Taken(cursor) : Eligible(cursor, b)

Kept == CursorInv' /\ Rearms

(* Feeds only grow: what was passed stays so. *)
LEMMA PassedStays ==
  ASSUME Types, NEW c \in Cursor, \A f \in Feeds : c.pos[f] <= Len(feed[f]),
         Passed(c), UNCHANGED scene, printed \subseteq printed',
         feed' \in [Feeds -> Seq(Record)],
         \A f \in Feeds : /\ Len(feed[f]) <= Len(feed'[f])
                          /\ \A i \in 1 .. Len(feed[f]) : feed'[f][i] = feed[f][i]
  PROVE  /\ Passed(c)' /\ \A f \in Feeds : c.pos[f] <= Len(feed'[f])
<1>1. \A f \in Feeds : c.pos[f] \in Nat /\ Len(feed[f]) \in Nat /\ Len(feed'[f]) \in Nat
  BY DEF Cursor, Types
<1>2. \A f \in Feeds : c.pos[f] <= Len(feed'[f])
  BY <1>1
<1>3. \A b : Within(c, b) => Within(c, b)'
  BY DEF Within
<1>4. ASSUME NEW k \in Feeds \X (1 .. MaxRecords), k[2] <= Len(feed'[k[1]]),
             Eligible(c, k)', k[2] <= c.pos[k[1]]
      PROVE  Shown(c, k)'
  <2>1. k[1] \in Feeds /\ k[2] \in Nat /\ k[2] >= 1
    BY NudgeAssumption
  <2>2. k[2] <= Len(feed[k[1]])
    BY <1>1, <1>4, <2>1
  <2>3. k[2] \in 1 .. Len(feed[k[1]])
    BY <1>1, <2>1, <2>2
  <2>4. Eligible(c, k)
    BY <1>4, <2>1, <2>3 DEF Eligible
  <2>5. Shown(c, k)
    BY <1>4, <2>2, <2>4 DEF Passed, Keys
  <2> QED BY <1>3, <2>5 DEF Shown
<1>5. Passed(c)'
  BY <1>4 DEF Passed, Keys
<1> QED BY <1>2, <1>5

LEMMA UnwrittenStep ==
  ASSUME CursorInv, Types', Feeding', Nonces', ScanCurrent',
         UNCHANGED <<scene, cursor>>, printed \subseteq printed', nonces <= nonces',
         \A f \in Feeds : /\ Len(feed[f]) <= Len(feed'[f])
                          /\ \A i \in 1 .. Len(feed[f]) : feed'[f][i] = feed[f][i],
         out' = out \/ (cursor # NoCursor => Reserved(cursor)')
  PROVE  Kept
<1>1. ASSUME cursor # NoCursor PROVE Good(cursor)'
  <2>1. PICK c \in Cursor : cursor = c
    BY <1>1 DEF CursorInv, Types
  <2>2. Good(c) /\ cursor' = c
    BY <1>1, <2>1 DEF CursorInv
  <2>3. feed' \in [Feeds -> Seq(Record)]
    BY DEF Types, Record
  <2>4. Passed(c)' /\ \A f \in Feeds : c.pos[f] <= Len(feed'[f])
    BY <2>2, <2>3, PassedStays DEF CursorInv, Good
  <2>5. Covered(c)'
    BY <2>2 DEF Good, Covered, Within
  <2>6. CASE out' = out
    <3>1. \A p \in c.pending : p.nonce \in Nat /\ p.nonce <= nonces
      BY <2>2 DEF Good, Reserved, Cursor, Pending
    <3>2. nonces \in Nat /\ nonces' \in Nat
      BY DEF CursorInv, Types
    <3>3. \A p \in c.pending : p.nonce <= nonces'
      BY <3>1, <3>2
    <3>4. Reserved(c)'
      BY <2>2, <2>6, <3>3 DEF Good, Reserved, Within
    <3> QED BY <2>2, <2>4, <2>5, <3>4 DEF Good, Passed, Covered, Reserved, Keys, Eligible, Shown, Within
  <2>7. CASE Reserved(cursor)'
    BY <2>2, <2>4, <2>5, <2>7 DEF Good, Passed, Covered, Reserved, Keys, Eligible, Shown, Within
  <2> QED BY <1>1, <2>6, <2>7
<1>2. Rearms
  BY DEF Rearms, CursorInv, Types, Cursor
<1> QED BY <1>1, <1>2 DEF Kept, CursorInv

(* A write under the lock, and its end. *)
LEMMA WrittenStep ==
  ASSUME CursorInv, Types', Nonces', UNCHANGED <<scene, feed, printed, out>>,
         txn' = NoTxn,
         \E d \in Cursor :
           /\ cursor' = d /\ Covered(d) /\ Passed(d)
           /\ \A f \in Feeds : d.pos[f] <= Len(feed[f])
           /\ \A p \in d.pending :
                /\ p.nonce <= nonces'
                /\ \A t \in Tools : out[t].nonce = p.nonce =>
                      \A b \in out[t].text : Within(d, b)
  PROVE  CursorInv'
<1>1. PICK d \in Cursor :
        /\ cursor' = d /\ Covered(d) /\ Passed(d)
        /\ \A f \in Feeds : d.pos[f] <= Len(feed[f])
        /\ \A p \in d.pending :
             /\ p.nonce <= nonces'
             /\ \A t \in Tools : out[t].nonce = p.nonce =>
                   \A b \in out[t].text : Within(d, b)
  OBVIOUS
<1>2. Good(cursor)'
  BY <1>1 DEF Good, Passed, Covered, Reserved, Keys, Eligible, Shown, Within
<1>3. Feeding' /\ ScanCurrent'
  BY DEF CursorInv, Feeding, ScanCurrent
<1> QED BY <1>2, <1>3 DEF CursorInv

LEMMA PublishStep ==
  ASSUME CursorInv, NEW f \in scene.feeds, Publish(f)
  PROVE  Kept
<1>1. /\ Types /\ f \in Feeds /\ scene.records <= MaxRecords
      /\ scene.workstreams \subseteq Workstreams /\ scene.records \in Nat /\ MaxRecords \in Nat
  BY SceneFacts DEF CursorInv
<1>2. PICK w \in scene.workstreams, at \in 1 .. now :
        feed' = [feed EXCEPT ![f] = Append(@, [ws |-> w, at |-> at])]
  BY DEF Publish
<1>3. UNCHANGED <<scene, now, avail, epoch, turn, cursor, txn, sent, out, printed, nonces>>
      /\ Len(feed[f]) < scene.records
  BY DEF Publish
<1> DEFINE r == [ws |-> w, at |-> at]
<1>4. r \in Record
  <2>1. scene.time \in Nat /\ now \in 1 .. scene.time
    BY <1>1, SceneFacts DEF Types
  <2>2. at \in 1 .. scene.time /\ w \in Workstreams
    BY <1>1, <2>1
  <2> QED BY <2>2 DEF Record
<1> HIDE DEF r
<1>5. feed[f] \in Seq(Record) /\ feed \in [Feeds -> Seq(Record)]
  BY <1>1 DEF Types
<1>6. /\ Append(feed[f], r) \in Seq(Record)
      /\ Len(Append(feed[f], r)) = Len(feed[f]) + 1 /\ Len(feed[f]) \in Nat
      /\ \A i \in 1 .. Len(feed[f]) : Append(feed[f], r)[i] = feed[f][i]
  BY <1>4, <1>5
<1>7. feed' = [feed EXCEPT ![f] = Append(feed[f], r)]
  BY <1>2 DEF r
<1>8. /\ feed' \in [Feeds -> Seq(Record)]
      /\ \A g \in Feeds : feed'[g] = IF g = f THEN Append(feed[f], r) ELSE feed[g]
  BY <1>1, <1>5, <1>6, <1>7
<1>9. \A g \in Feeds : /\ Len(feed[g]) <= Len(feed'[g])
                       /\ \A i \in 1 .. Len(feed[g]) : feed'[g][i] = feed[g][i]
  <2>1. \A g \in Feeds : Len(feed[g]) \in Nat
    BY <1>5
  <2> QED BY <1>6, <1>8, <2>1
<1>10. Types'
  <2>1. feed' \in [Feeds -> Seq(Record')]
    BY <1>3, <1>8 DEF Record
  <2>2. /\ cursor' \in Cursor' \union {NoCursor} /\ txn' \in Txn' \union {NoTxn}
        /\ sent' \in Seq(Delivery' \union Read) /\ out' \in [Tools -> Output']
        /\ epoch' \in Epoch' \union {NoEpoch}
    BY <1>1, <1>3 DEF Types, Cursor, Pending, Bits, Txn, HookCalls, Epoch, Delivery, Output
  <2> QED BY <1>1, <1>3, <2>1, <2>2 DEF Types
<1>11. Feeding'
  <2>1. \A g \in Feeds : Len(feed'[g]) <= MaxRecords
    BY <1>1, <1>3, <1>6, <1>8 DEF CursorInv, Feeding
  <2>2. \A g \in Feeds : g \notin scene.feeds => feed'[g] = <<>>
    BY <1>8 DEF CursorInv, Feeding
  <2> QED BY <1>3, <2>1, <2>2 DEF Feeding
<1>12. ScanCurrent'
  <2>1. ASSUME txn # NoTxn, NEW g \in Feeds
        PROVE  txn.scan.len[g] <= Len(feed'[g])
    <3>1. txn.scan.len[g] \in Nat /\ Len(feed[g]) \in Nat /\ Len(feed'[g]) \in Nat
      BY <1>1, <1>5, <1>8, <2>1 DEF Types, Txn, ScanType
    <3>2. txn.scan.len[g] <= Len(feed[g])
      BY <2>1 DEF CursorInv, ScanCurrent
    <3> QED BY <1>9, <3>1, <3>2
  <2> QED BY <1>3, <2>1 DEF CursorInv, ScanCurrent
<1>13. Nonces' /\ nonces <= nonces' /\ printed \subseteq printed'
  BY <1>1, <1>3 DEF CursorInv, Nonces, Types
<1> QED BY <1>3, <1>9, <1>10, <1>11, <1>12, <1>13, UnwrittenStep

(* A step that leaves the feeds, the cursor and what was read alone. *)
LEMMA AsideStep ==
  ASSUME CursorInv, Types', ScanCurrent',
         UNCHANGED <<scene, feed, cursor, printed, out, nonces>>
  PROVE  Kept
<1>1. feed \in [Feeds -> Seq(Record)] /\ nonces \in Nat
  BY DEF CursorInv, Types
<1>2. \A f \in Feeds : /\ Len(feed[f]) <= Len(feed'[f])
                       /\ \A i \in 1 .. Len(feed[f]) : feed'[f][i] = feed[f][i]
  BY <1>1
<1>3. Feeding' /\ Nonces' /\ nonces <= nonces'
  BY <1>1 DEF CursorInv, Feeding, Nonces
<1> QED BY <1>2, <1>3, UnwrittenStep

(* The types that depend on the scene only. *)
LEMMA TypesStay ==
  ASSUME UNCHANGED scene
  PROVE  /\ Record' = Record /\ Epoch' = Epoch /\ Cursor' = Cursor /\ Txn' = Txn
         /\ Delivery' = Delivery /\ Output' = Output /\ Bits' = Bits /\ Pending' = Pending
BY DEF Record, Epoch, Cursor, Pending, Bits, Txn, HookCalls, Delivery, Output

LEMMA WorldStep ==
  ASSUME CursorInv,
         \/ Tick
         \/ \E f \in scene.feeds : Change(f)
         \/ \E w \in scene.workstreams : Move(w)
  PROVE  Kept
<1>1. UNCHANGED <<scene, feed, turn, cursor, txn, sent, out, printed, nonces>>
  BY DEF Tick, Change, Move
<1>2. /\ Types /\ scene.feeds \subseteq Feeds /\ scene.workstreams \subseteq Workstreams
      /\ scene.time \in Nat
  BY SceneFacts DEF CursorInv
<1>3. now' \in 1 .. scene.time
  BY <1>2 DEF Tick, Change, Move, Types
<1>4. avail' \in [Feeds -> {"ok", "gone", "broken"}]
  BY <1>2 DEF Tick, Change, Move, Types
<1>5. epoch' \in Epoch \union {NoEpoch}
  BY <1>2 DEF Tick, Change, Move, Types, Epoch
<1>6. Types'
  BY <1>1, <1>2, <1>3, <1>4, <1>5, TypesStay DEF Types
<1>7. ScanCurrent'
  BY <1>1 DEF CursorInv, ScanCurrent
<1> QED BY <1>1, <1>6, <1>7, AsideStep

LEMMA ReadCommandStep ==
  ASSUME CursorInv, NEW t \in Tools, ReadCommand(t)
  PROVE  Kept
<1>1. UNCHANGED <<scene, now, feed, avail, epoch, turn, cursor, txn, sent, nonces>>
      /\ SameEpoch(cursor, epoch) /\ epoch # NoEpoch
      /\ printed' = printed \union {<<epoch, b>> : b \in out'[t].text}
  BY DEF ReadCommand
<1>2. Types /\ cursor \in Cursor /\ epoch \in Epoch /\ cursor # NoCursor
  BY <1>1 DEF CursorInv, Types, SameEpoch
<1>3. PICK p \in Authority(t), kind \in {"turn", "context"},
           text \in Pages(epoch) \union Contexts(epoch) :
        out' = [out EXCEPT ![t] = [nonce |-> p.nonce, kind |-> kind, text |-> text]]
  BY DEF ReadCommand
<1> DEFINE o == [nonce |-> p.nonce, kind |-> kind, text |-> text]
<1>4. p \in cursor.pending /\ p.nonce \in Nat /\ p.nonce <= nonces
  BY <1>2 DEF Authority, Cursor, Pending, CursorInv, Good, Reserved
<1>5. text \in SUBSET Bits
  <2>1. CASE text \in Contexts(epoch)
    BY <2>1 DEF Contexts
  <2>2. CASE text \in Pages(epoch)
    <3>1. PICK k \in Readable(epoch), fld \in Fields, us \in SUBSET scene.units \ {{}} :
            text = {k[1]} \X {k[2]} \X {fld} \X us
      BY <2>2 DEF Pages
    <3>2. k \in Feeds \X (1 .. MaxRecords) /\ k[2] <= Len(feed[k[1]])
      BY <3>1 DEF Readable
    <3>3. k[1] \in scene.feeds
      <4>1. k[2] \in Nat /\ k[2] >= 1 /\ k[1] \in Feeds
        BY <3>2, NudgeAssumption
      <4>2. feed[k[1]] # <<>>
        BY <3>2, <4>1
      <4> QED BY <4>1, <4>2 DEF CursorInv, Feeding
    <3> QED BY <3>1, <3>2, <3>3 DEF Bits
  <2> QED BY <2>1, <2>2
<1>6. o \in Output /\ o.nonce = p.nonce /\ o.text = text
  BY <1>4, <1>5 DEF Output
<1> HIDE DEF o
<1>7. /\ out' \in [Tools -> Output]
      /\ \A u \in Tools : out'[u] = IF u = t THEN o ELSE out[u]
  BY <1>2, <1>3, <1>6 DEF Types, o
<1>8. Types'
  <2>1. out' \in [Tools -> Output']
    BY <1>1, <1>7, TypesStay
  <2> QED BY <1>1, <1>2, <2>1, TypesStay DEF Types
<1>9. Nonces'
  BY <1>1, <1>4, <1>6, <1>7 DEF Nonces, CursorInv
<1>10. Feeding' /\ ScanCurrent'
  BY <1>1 DEF CursorInv, Feeding, ScanCurrent
<1>11. Reserved(cursor)'
  <2> SUFFICES ASSUME NEW q \in cursor.pending
               PROVE  /\ q.nonce <= nonces
                      /\ \A u \in Tools : out'[u].nonce = q.nonce =>
                            \A b \in out'[u].text :
                              <<[ws |-> cursor.ws, from |-> cursor.from], b>> \in printed'
    BY <1>1 DEF Reserved, Within
  <2>1. /\ q.nonce <= nonces
        /\ \A u \in Tools : out[u].nonce = q.nonce => \A b \in out[u].text : Within(cursor, b)
    BY <1>2 DEF CursorInv, Good, Reserved
  <2>2. epoch = [ws |-> cursor.ws, from |-> cursor.from]
    BY <1>1, <1>2 DEF SameEpoch, Epoch
  <2> QED BY <1>1, <1>7, <2>1, <2>2 DEF Within
<1>12. \A f \in Feeds : /\ Len(feed[f]) <= Len(feed'[f])
                        /\ \A i \in 1 .. Len(feed[f]) : feed'[f][i] = feed[f][i]
  <2>1. \A f \in Feeds : Len(feed[f]) \in Nat
    BY <1>2 DEF Types
  <2> QED BY <1>1, <2>1
<1>13. printed \subseteq printed' /\ nonces <= nonces'
  BY <1>1, <1>2 DEF Types
<1> QED BY <1>1, <1>8, <1>9, <1>10, <1>11, <1>12, <1>13, UnwrittenStep

LEMMA ScanProperties ==
  ASSUME Types
  PROVE  /\ Scan \in ScanType
         /\ \A f \in Feeds : Scan.len[f] = Len(feed[f]) /\ Len(feed[f]) \in Nat
BY DEF Types, Scan, ScanType

LEMMA OpenStep ==
  ASSUME CursorInv, NEW h \in HookCalls, Open(h)
  PROVE  Kept
<1>1. UNCHANGED <<scene, now, feed, avail, epoch, cursor, sent, out, printed, nonces>>
      /\ epoch # NoEpoch
  BY DEF Open
<1>2. Types /\ scene.turns \in Nat
  BY SceneFacts DEF CursorInv
<1>3. PICK t \in EventTurns(h) :
        /\ t <= scene.turns
        /\ turn' = IF t > turn THEN t ELSE turn
        /\ txn' = [hook |-> h, turn |-> t, epoch |-> epoch, scan |-> Scan,
                   phase |-> "scanned"]
  BY DEF Open
<1>4. t \in 1 .. scene.turns /\ turn' \in 1 .. scene.turns
  <2>1. turn \in Nat /\ turn >= 1 /\ turn \in 1 .. scene.turns
    BY <1>2 DEF Types
  <2>2. t \in 1 .. turn + 1 \/ t = turn + 1 \/ t = turn
    BY DEF EventTurns
  <2>3. t \in Nat /\ t >= 1
    BY <2>1, <2>2
  <2> QED BY <1>2, <1>3, <2>1, <2>3
<1>5. Scan \in ScanType /\ \A f \in Feeds : Scan.len[f] = Len(feed[f]) /\ Len(feed[f]) \in Nat
  BY <1>2, ScanProperties
<1>6. epoch \in Epoch /\ t \in Nat
  BY <1>1, <1>2, <1>4 DEF Types
<1>7. txn' \in Txn /\ txn'.scan = Scan
  BY <1>3, <1>5, <1>6 DEF Txn
<1>8. Types'
  BY <1>1, <1>2, <1>4, <1>7, TypesStay DEF Types
<1>9. ScanCurrent'
  <2>1. cursor # NoCursor => \A f \in Feeds : cursor.pos[f] <= Len(feed[f])
    BY DEF CursorInv, Good
  <2>2. \A f \in Feeds : Len(feed[f]) <= Len(feed[f])
    BY <1>5
  <2> QED BY <1>1, <1>5, <1>7, <2>1, <2>2 DEF ScanCurrent
<1> QED BY <1>1, <1>8, <1>9, AsideStep

LEMMA CheckStep ==
  ASSUME CursorInv, Check
  PROVE  Kept
<1>1. UNCHANGED <<scene, now, feed, avail, epoch, turn, cursor, sent, out, printed, nonces>>
      /\ txn # NoTxn
  BY DEF Check
<1>2. Types /\ txn \in Txn
  BY <1>1 DEF CursorInv, Types
<1>3. Scan \in ScanType /\ \A f \in Feeds : Scan.len[f] = Len(feed[f]) /\ Len(feed[f]) \in Nat
  BY <1>2, ScanProperties
<1>4. \/ txn' = NoTxn
      \/ txn' \in Txn /\ txn'.scan \in {txn.scan, Scan}
  <2>1. \/ txn' = NoTxn
        \/ txn' = [txn EXCEPT !.phase = "checked", !.scan = txn.scan]
        \/ txn' = [txn EXCEPT !.phase = "checked", !.scan = Scan]
    BY <1>2 DEF Check, Txn
  <2> QED BY <1>2, <1>3, <2>1 DEF Txn
<1>5. Types'
  BY <1>1, <1>2, <1>4, TypesStay DEF Types
<1>6. ScanCurrent'
  <2>1. CASE txn' = NoTxn
    BY <2>1 DEF ScanCurrent
  <2>2. CASE txn'.scan = txn.scan
    BY <1>1, <2>2 DEF CursorInv, ScanCurrent
  <2>3. CASE txn'.scan = Scan
    <3>1. cursor # NoCursor => \A f \in Feeds : cursor.pos[f] <= Len(feed[f])
      BY DEF CursorInv, Good
    <3>2. \A f \in Feeds : Len(feed[f]) <= Len(feed[f])
      BY <1>3
    <3> QED BY <1>1, <1>3, <2>3, <3>1, <3>2 DEF ScanCurrent
  <2> QED BY <1>4, <2>1, <2>2, <2>3
<1> QED BY <1>1, <1>5, <1>6, AsideStep

LEMMA WriteClaimStep ==
  ASSUME CursorInv, WriteClaim
  PROVE  Kept
<1>1. /\ UNCHANGED <<scene, now, feed, avail, epoch, turn, out, printed, nonces>>
      /\ txn' = NoTxn /\ txn # NoTxn
      /\ txn.hook.op \in {"prompt", "tool", "stop"}
  BY DEF WriteClaim, Informational
<1> DEFINE h == txn.hook
           ep == txn.epoch
           sc == txn.scan
           t == txn.turn
           c == Claim(h, ep, sc, t)
           v == Virtual(ep)
<1>2. cursor' = c.cursor /\ sent' = sent \o c.sent
  BY DEF WriteClaim
<1>3. /\ Types /\ ep \in Epoch /\ sc \in ScanType /\ t \in Nat
      /\ \A f \in Feeds : sc.len[f] <= Len(feed[f])
      /\ cursor # NoCursor => \A f \in Feeds : cursor.pos[f] <= sc.len[f]
  BY <1>1 DEF CursorInv, Types, Txn, ScanCurrent
<1>4. /\ v \in Cursor /\ Good(v) /\ v.ws = ep.ws /\ v.from = ep.from
      /\ cursor # NoCursor => v.rev >= cursor.rev
      /\ \/ /\ cursor # NoCursor /\ v.rev = cursor.rev /\ SameEpoch(cursor, ep)
            /\ v.pos = cursor.pos
         \/ ~SameEpoch(cursor, ep) /\ \A f \in Feeds : v.pos[f] = 0
  BY <1>3, VirtualProperties
<1>5. \A f \in Feeds : v.pos[f] <= sc.len[f] /\ sc.len[f] <= Len(feed[f])
  BY <1>3, <1>4 DEF ScanType
<1> HIDE DEF h, ep, sc, t, c, v
<1>6. /\ c.cursor \in Cursor /\ Good(c.cursor)
      /\ c.cursor.ws = ep.ws /\ c.cursor.from = ep.from /\ c.cursor.rev = v.rev
      /\ c.sent \in Seq(Delivery \union Read)
  BY <1>1, <1>3, <1>5, ClaimProperties DEF c, v, h
<1>7. Types'
  <2>1. sent' \in Seq(Delivery \union Read)
    BY <1>2, <1>3, <1>6 DEF Types
  <2>2. cursor' \in Cursor
    BY <1>2, <1>6
  <2> QED BY <1>1, <1>3, <2>1, <2>2, TypesStay DEF Types
<1>8. Nonces'
  BY <1>1 DEF CursorInv, Nonces
<1>9. CursorInv'
  <2>1. PICK d \in Cursor : d = c.cursor
    BY <1>6
  <2>2. Good(d)
    BY <1>6, <2>1
  <2> QED BY <1>1, <1>2, <1>7, <1>8, <2>1, <2>2, WrittenStep DEF Good, Reserved
<1>10. Rearms
  <2>1. cursor # NoCursor => cursor'.rev >= cursor.rev
    BY <1>2, <1>4, <1>6
  <2>2. ASSUME cursor # NoCursor, SameEpoch(cursor', cursor)
        PROVE  cursor'.rev = cursor.rev
    <3>1. SameEpoch(cursor, ep)
      BY <1>2, <1>6, <2>2 DEF SameEpoch
    <3> QED BY <1>2, <1>4, <1>6, <3>1
  <2> QED BY <2>1, <2>2 DEF Rearms
<1> QED BY <1>9, <1>10 DEF Kept

LEMMA WriteReadStep ==
  ASSUME CursorInv, WriteRead
  PROVE  Kept
<1>1. /\ UNCHANGED <<scene, now, feed, avail, epoch, turn, out, printed>>
      /\ txn' = NoTxn /\ txn # NoTxn
      /\ txn.hook.op \notin {"prompt", "tool", "stop"}
  BY DEF WriteRead, Informational
<1> DEFINE h == txn.hook
           ep == txn.epoch
           sc == txn.scan
           t == txn.turn
           v == Virtual(ep)
           R == ReadResult(h, ep, sc, t)
           n == IF h.op = "reserve" THEN nonces + 1 ELSE nonces
<1>2. nonces' = n
  BY DEF WriteRead
<1>3. /\ Types /\ ep \in Epoch /\ sc \in ScanType /\ t \in Nat /\ h \in HookCalls
      /\ nonces \in Nat
      /\ \A f \in Feeds : sc.len[f] <= Len(feed[f])
      /\ cursor # NoCursor => \A f \in Feeds : cursor.pos[f] <= sc.len[f]
  BY <1>1 DEF CursorInv, Types, Txn, ScanCurrent
<1>4. /\ v \in Cursor /\ Good(v) /\ v.ws = ep.ws /\ v.from = ep.from
      /\ cursor # NoCursor => v.rev >= cursor.rev
      /\ \/ /\ cursor # NoCursor /\ v.rev = cursor.rev /\ SameEpoch(cursor, ep)
            /\ v.pos = cursor.pos /\ v.cov = cursor.cov /\ v.pending = cursor.pending
            /\ cursor.ws = ep.ws /\ cursor.from = ep.from
         \/ ~SameEpoch(cursor, ep) /\ \A f \in Feeds : v.pos[f] = 0
  BY <1>3, VirtualProperties
<1>5. \A f \in Feeds : v.pos[f] <= sc.len[f] /\ sc.len[f] <= Len(feed[f])
  BY <1>3, <1>4 DEF ScanType
<1>6. \/ R = {} /\ UNCHANGED <<cursor, sent>>
      \/ \E d \in R :
           /\ cursor' = d
           /\ sent' = Forgotten \o
                 IF d.rev = v.rev THEN <<>>
                 ELSE <<[op |-> "read", rev |-> d.rev, count |-> 0,
                         turn |-> d.informed, stage |-> "emitted"]>>
  BY DEF WriteRead
<1>7. n \in Nat /\ nonces <= n
  BY <1>3
<1> HIDE DEF h, ep, sc, t, v, R
<1>8. \A d \in R : ReadWrites(v, d, n)
  <2>1. \A d \in ReadResult(h, ep, sc, t) :
          ReadWrites(Virtual(ep), d, IF h.op = "reserve" THEN nonces + 1 ELSE nonces)
    BY <1>1, <1>3, <1>4, <1>5, ReadResultWrites DEF CursorInv, h, v
  <2> QED BY <2>1 DEF v, R
<1> HIDE DEF n
<1>9. Nonces'
  <2>1. \A u \in Tools : out[u].nonce \in Nat /\ out[u].nonce <= nonces
    BY <1>3 DEF CursorInv, Nonces, Types, Output
  <2>2. \A u \in Tools : out[u].nonce <= n
    BY <1>3, <1>7, <2>1
  <2> QED BY <1>1, <1>2, <2>2 DEF Nonces
<1>10. CASE R = {} /\ UNCHANGED <<cursor, sent>>
  <2>1. Types'
    BY <1>1, <1>2, <1>3, <1>7, <1>10, TypesStay DEF Types
  <2>2. Feeding' /\ ScanCurrent'
    BY <1>1, <1>10 DEF CursorInv, Feeding, ScanCurrent
  <2>3. \A f \in Feeds : /\ Len(feed[f]) <= Len(feed'[f])
                         /\ \A i \in 1 .. Len(feed[f]) : feed'[f][i] = feed[f][i]
    <3>1. \A f \in Feeds : Len(feed[f]) \in Nat
      BY <1>3 DEF Types
    <3> QED BY <1>1, <3>1
  <2> QED BY <1>1, <1>2, <1>7, <1>9, <1>10, <2>1, <2>2, <2>3, UnwrittenStep
<1>11. ASSUME NEW d \in R,
              cursor' = d,
              sent' = Forgotten \o
                 IF d.rev = v.rev THEN <<>>
                 ELSE <<[op |-> "read", rev |-> d.rev, count |-> 0,
                         turn |-> d.informed, stage |-> "emitted"]>>
       PROVE  Kept
  <2>1. ReadWrites(v, d, n)
    BY <1>8
  <2>2. d \in Cursor /\ d.rev \in Nat /\ d.informed \in Nat
    BY <2>1 DEF ReadWrites, Cursor
  <2>3. sent' \in Seq(Delivery \union Read)
    <3>1. sent \in Seq(Delivery \union Read)
      BY <1>3 DEF Types
    <3>2. Forgotten \in Seq(Delivery \union Read)
      <4>1. ASSUME NEW i \in DOMAIN sent
            PROVE  /\ sent[i] \in Delivery \union Read
                   /\ [sent[i] EXCEPT !.stage = "forgotten"] \in Delivery \union Read
        <5>1. sent[i] \in Delivery \union Read
          BY <3>1
        <5> QED BY <5>1 DEF Delivery, Read
      <4>2. DOMAIN sent = 1 .. Len(sent) /\ Len(sent) \in Nat
        BY <3>1
      <4>3. \A i \in DOMAIN sent :
              (IF cursor # NoCursor /\ cursor.v = 1
               THEN [sent[i] EXCEPT !.stage = "forgotten"] ELSE sent[i]) \in Delivery \union Read
        BY <4>1
      <4>4. Forgotten \in [1 .. Len(sent) -> Delivery \union Read]
        BY <4>2, <4>3 DEF Forgotten
      <4> QED BY <4>2, <4>4
    <3> DEFINE m == IF d.rev = v.rev THEN <<>>
                    ELSE <<[op |-> "read", rev |-> d.rev, count |-> 0,
                            turn |-> d.informed, stage |-> "emitted"]>>
    <3>3. m \in Seq(Delivery \union Read)
      <4>1. [op |-> "read", rev |-> d.rev, count |-> 0, turn |-> d.informed,
             stage |-> "emitted"] \in Delivery \union Read
        BY <2>2 DEF Read
      <4> DEFINE r == [op |-> "read", rev |-> d.rev, count |-> 0, turn |-> d.informed,
                       stage |-> "emitted"]
      <4>2. r \in Delivery \union Read
        BY <4>1
      <4> HIDE DEF r
      <4>3. <<>> \in Seq(Delivery \union Read) /\ <<r>> \in Seq(Delivery \union Read)
        BY <4>2
      <4>4. m = IF d.rev = v.rev THEN <<>> ELSE <<r>>
        BY DEF r
      <4> QED BY <4>3, <4>4
    <3>4. sent' = Forgotten \o m
      BY <1>11
    <3> HIDE DEF m
    <3> QED BY <3>2, <3>3, <3>4
  <2>4. Types'
    BY <1>1, <1>2, <1>3, <1>7, <1>11, <2>2, <2>3, TypesStay DEF Types
  <2>5. CursorInv'
    BY <1>1, <1>2, <1>9, <1>11, <2>1, <2>2, <2>4, WrittenStep DEF ReadWrites
  <2>6. Rearms
    <3>1. cursor # NoCursor => cursor'.rev >= cursor.rev
      <4>1. v.rev \in Nat /\ (cursor # NoCursor => cursor.rev \in Nat)
        BY <1>3, <1>4 DEF Cursor, Types
      <4> QED BY <1>4, <1>11, <2>1, <4>1 DEF ReadWrites
    <3>2. ASSUME cursor # NoCursor, SameEpoch(cursor', cursor), cursor'.rev # cursor.rev
          PROVE  \E b \in Taken(cursor') \ Taken(cursor) : Eligible(cursor, b)
      <4>1. SameEpoch(cursor, ep)
        BY <1>4, <1>11, <2>1, <3>2 DEF SameEpoch, ReadWrites
      <4>2. /\ v.rev = cursor.rev /\ v.pos = cursor.pos /\ v.cov = cursor.cov
            /\ v.ws = cursor.ws /\ v.from = cursor.from
        BY <1>4, <4>1
      <4>3. NewText(v, d)
        BY <1>11, <2>1, <3>2, <4>2 DEF ReadWrites
      <4>4. Taken(v) = Taken(cursor)
        BY <4>2 DEF Taken
      <4>5. \A b : Eligible(v, b) <=> Eligible(cursor, b)
        BY <4>2 DEF Eligible
      <4> QED BY <1>11, <4>3, <4>4, <4>5 DEF NewText
    <3> QED BY <3>1, <3>2 DEF Rearms
  <2> QED BY <2>5, <2>6 DEF Kept
<1> QED BY <1>6, <1>10, <1>11

(* The first cursor of a membership, when there is none yet. *)
LEMMA InheritStep ==
  ASSUME CursorInv, Inherit
  PROVE  Kept
<1>1. /\ UNCHANGED <<scene, now, feed, avail, epoch, turn, txn, out, printed, nonces>>
      /\ cursor = NoCursor /\ txn = NoTxn /\ epoch # NoEpoch
  BY DEF Inherit
<1> DEFINE c == FirstCursor(epoch)
           count == Cardinality(Unread(c, Scan))
           ct == TurnOf(c, turn)
<1>2. PICK op \in {"none", "tool", "stop"} :
        /\ cursor' = [c EXCEPT !.v = scene.version,
                         !.stop = IF op = "stop" THEN c.rev ELSE 0,
                         !.high = IF op = "none" THEN 0 ELSE count,
                         !.last = IF op = "none" \/ scene.version = 1 THEN 0 ELSE ct]
        /\ sent' = IF op = "none" THEN sent ELSE
              Append(sent, [op |-> op, ws |-> epoch.ws, from |-> epoch.from,
                            rev |-> c.rev, count |-> count,
                            turn |-> IF scene.version = 1 THEN 0 ELSE ct,
                            stage |-> "emitted", before |-> <<0, 0>>,
                            after |-> <<count, ct>>])
  BY DEF Inherit
<1>3. Types /\ epoch \in Epoch /\ scene.version \in 1 .. 3 /\ turn \in Nat /\ Scan \in ScanType
  BY <1>1, SceneFacts, ScanProperties DEF CursorInv, Types
<1>4. c = Virtual(epoch)
  BY <1>1 DEF Virtual, SameEpoch
<1> HIDE DEF c
<1>5. c \in Cursor /\ Good(c)
  BY <1>3, <1>4, VirtualProperties
<1>6. count \in Nat /\ ct \in Nat
  BY <1>3, <1>5, UnreadFinite, TurnOfType
<1> HIDE DEF count, ct
<1> DEFINE s == IF op = "stop" THEN c.rev ELSE 0
           g == IF op = "none" THEN 0 ELSE count
           l == IF op = "none" \/ scene.version = 1 THEN 0 ELSE ct
           d == [c EXCEPT !.v = scene.version, !.stop = s, !.high = g, !.last = l]
           r == [op |-> op, ws |-> epoch.ws, from |-> epoch.from,
                 rev |-> c.rev, count |-> count,
                 turn |-> IF scene.version = 1 THEN 0 ELSE ct,
                 stage |-> "emitted", before |-> <<0, 0>>, after |-> <<count, ct>>]
<1>7. cursor' = d /\ sent' = IF op = "none" THEN sent ELSE Append(sent, r)
  BY <1>2
<1>8. s \in Nat /\ g \in Nat /\ l \in Nat
  BY <1>5, <1>6 DEF Cursor
<1>9. op # "none" => r \in Delivery
  BY <1>3, <1>5, <1>6 DEF Delivery, Cursor, Epoch
<1> HIDE DEF s, g, l, r
<1>10. d \in Cursor
  BY <1>3, <1>5, <1>8 DEF Cursor
<1>11. SameRead(c, d) /\ d.pending = c.pending
  BY <1>5 DEF Cursor, SameRead
<1> HIDE DEF d
<1>12. Covered(d) /\ Passed(d)
  BY <1>5, <1>11, ReadStays DEF Good
<1>13. Reserved(d) /\ \A f \in Feeds : d.pos[f] <= Len(feed[f])
  BY <1>5, <1>11 DEF Good, Reserved, SameRead, Within
<1>14. Types'
  <2>1. sent' \in Seq(Delivery \union Read)
    <3>1. sent \in Seq(Delivery \union Read)
      BY <1>3 DEF Types
    <3> QED BY <1>7, <1>9, <3>1
  <2> QED BY <1>1, <1>3, <1>7, <1>10, <2>1, TypesStay DEF Types
<1>15. Nonces'
  BY <1>1 DEF CursorInv, Nonces
<1>16. CursorInv'
  BY <1>1, <1>7, <1>10, <1>12, <1>13, <1>14, <1>15, WrittenStep DEF Reserved
<1> QED BY <1>1, <1>16 DEF Kept, Rearms

LEMMA ExpireStep ==
  ASSUME CursorInv, Expire
  PROVE  Kept
<1>1. /\ UNCHANGED <<scene, now, feed, avail, epoch, turn, txn, sent, out, printed, nonces>>
      /\ cursor # NoCursor /\ txn = NoTxn
  BY DEF Expire
<1>2. Types /\ cursor \in Cursor /\ Good(cursor)
  BY <1>1 DEF CursorInv, Types
<1>3. PICK p \in cursor.pending :
        cursor' = [cursor EXCEPT !.pending = (@ \ {p}) \union {[p EXCEPT !.live = FALSE]}]
  BY DEF Expire
<1> DEFINE q == [p EXCEPT !.live = FALSE]
           ps == (cursor.pending \ {p}) \union {q}
           d == [cursor EXCEPT !.pending = ps]
<1>4. cursor' = d
  BY <1>2, <1>3 DEF Cursor
<1>5. q \in Pending /\ q.nonce = p.nonce
  BY <1>2, <1>3 DEF Cursor, Pending
<1> HIDE DEF q
<1>6. ps \in SUBSET Pending /\ \A x \in ps : \E y \in cursor.pending : x.nonce = y.nonce
  BY <1>2, <1>5 DEF Cursor
<1> HIDE DEF ps
<1>7. d \in Cursor /\ SameRead(cursor, d) /\ d.pending = ps
  BY <1>2, <1>6 DEF Cursor, SameRead
<1> HIDE DEF d
<1>8. Covered(d) /\ Passed(d)
  BY <1>2, <1>7, ReadStays DEF Good
<1>9. Reserved(d) /\ \A f \in Feeds : d.pos[f] <= Len(feed[f])
  BY <1>2, <1>6, <1>7 DEF Good, Reserved, SameRead, Within
<1>10. Types'
  BY <1>1, <1>2, <1>4, <1>7, TypesStay DEF Types
<1>11. Nonces'
  BY <1>1 DEF CursorInv, Nonces
<1>12. CursorInv'
  BY <1>1, <1>4, <1>7, <1>8, <1>9, <1>10, <1>11, WrittenStep DEF Reserved
<1>13. Rearms
  <2>1. cursor.rev \in Nat /\ cursor'.rev = cursor.rev
    BY <1>2, <1>4, <1>7 DEF Cursor, SameRead
  <2> QED BY <2>1 DEF Rearms
<1> QED BY <1>12, <1>13 DEF Kept

LEMMA SettleTypes ==
  ASSUME CursorInv, NEW i \in DOMAIN sent, sent[i].stage \in {"claimed", "failed"},
         NEW stage \in {"emitted", "failed", "void"}, Settle(i, stage)
  PROVE  sent[i] \in Delivery /\ sent' \in Seq(Delivery \union Read)
<1>1. sent \in Seq(Delivery \union Read)
  BY DEF CursorInv, Types
<1>2. sent[i] \in Delivery \union Read
  BY <1>1
<1>3. sent[i] \in Delivery
  BY <1>2 DEF Read
<1> DEFINE r == [sent[i] EXCEPT !.stage = stage]
<1>4. r \in Delivery
  BY <1>3 DEF Delivery
<1>5. sent' = [sent EXCEPT ![i] = r]
  BY DEF Settle
<1> HIDE DEF r
<1>6. sent' \in Seq(Delivery \union Read)
  BY <1>1, <1>4, <1>5
<1> QED BY <1>3, <1>6

LEMMA SettleStep ==
  ASSUME CursorInv, NEW i \in DOMAIN sent, Emit(i) \/ Fail(i)
  PROVE  Kept
<1>1. UNCHANGED <<scene, now, feed, avail, epoch, turn, cursor, txn, out, printed, nonces>>
  BY DEF Emit, Fail
<1>2. sent' \in Seq(Delivery \union Read)
  BY SettleTypes DEF Emit, Fail
<1>3. Types'
  BY <1>1, <1>2, TypesStay DEF CursorInv, Types
<1>4. ScanCurrent'
  BY <1>1 DEF CursorInv, ScanCurrent
<1> QED BY <1>1, <1>3, <1>4, AsideStep

(* Putting the stop budget and the announcement marks back. *)
LEMMA BudgetType ==
  ASSUME NEW c \in Cursor, NEW s \in Nat, NEW h \in Nat, NEW l \in Nat
  PROVE  /\ [c EXCEPT !.stop = s, !.high = h, !.last = l] \in Cursor
         /\ [c EXCEPT !.stop = s] \in Cursor
BY DEF Cursor

LEMMA RollbackStep ==
  ASSUME CursorInv, NEW i \in DOMAIN sent, Rollback(i)
  PROVE  Kept
<1>1. /\ UNCHANGED <<scene, now, feed, avail, epoch, turn, txn, out, printed, nonces>>
      /\ txn = NoTxn /\ Settle(i, "void") /\ sent[i].stage = "failed"
  BY DEF Rollback
<1>2. Types /\ sent[i] \in Delivery /\ sent' \in Seq(Delivery \union Read)
  BY <1>1, SettleTypes DEF CursorInv
<1>3. sent[i].before[1] \in Nat /\ sent[i].before[2] \in Nat
  BY <1>2 DEF Delivery
<1>4. CASE cursor' = cursor
  <2>1. Types'
    BY <1>1, <1>2, <1>4, TypesStay DEF Types
  <2>2. ScanCurrent'
    BY <1>1, <1>4 DEF CursorInv, ScanCurrent
  <2> QED BY <1>1, <1>4, <2>1, <2>2, AsideStep
<1>5. ASSUME cursor # NoCursor,
             \/ cursor' = [cursor EXCEPT !.stop = 0, !.high = sent[i].before[1],
                                         !.last = sent[i].before[2]]
             \/ cursor' = [cursor EXCEPT !.stop = 0]
      PROVE  Kept
  <2>1. cursor \in Cursor /\ Good(cursor)
    BY <1>2, <1>5 DEF CursorInv, Types
  <2>2. cursor' \in Cursor
    <3>1. 0 \in Nat
      OBVIOUS
    <3>2. [cursor EXCEPT !.stop = 0, !.high = sent[i].before[1],
                         !.last = sent[i].before[2]] \in Cursor
      BY <1>3, <2>1, <3>1, BudgetType
    <3>3. [cursor EXCEPT !.stop = 0] \in Cursor
      BY <2>1, <3>1, BudgetType
    <3> QED BY <1>5, <3>2, <3>3
  <2>3. SameRead(cursor, cursor') /\ cursor'.pending = cursor.pending
    BY <1>5, <2>1 DEF Cursor, SameRead
  <2>4. PICK d \in Cursor : cursor' = d
    BY <2>2
  <2>5. SameRead(cursor, d) /\ d.pending = cursor.pending
    BY <2>3, <2>4
  <2>6. Covered(d) /\ Passed(d)
    BY <2>1, <2>5, ReadStays DEF Good
  <2>7. Reserved(d) /\ \A f \in Feeds : d.pos[f] <= Len(feed[f])
    BY <2>1, <2>5 DEF Good, Reserved, SameRead, Within
  <2>8. Types'
    BY <1>1, <1>2, <2>2, TypesStay DEF Types
  <2>9. Nonces'
    BY <1>1 DEF CursorInv, Nonces
  <2>10. CursorInv'
    BY <1>1, <2>4, <2>6, <2>7, <2>8, <2>9, WrittenStep DEF Reserved
  <2>11. Rearms
    <3>1. cursor.rev \in Nat /\ cursor'.rev = cursor.rev
      BY <2>1, <2>3 DEF Cursor, SameRead
    <3> QED BY <3>1 DEF Rearms
  <2> QED BY <2>10, <2>11 DEF Kept
<1> QED BY <1>4, <1>5 DEF Rollback, SameEpoch

LEMMA StutterStep ==
  ASSUME CursorInv, UNCHANGED vars
  PROVE  Kept
<1>1. UNCHANGED <<scene, now, feed, avail, epoch, turn, cursor, txn, sent, out, printed, nonces>>
  BY DEF vars
<1>2. Types'
  BY <1>1, TypesStay DEF CursorInv, Types
<1>3. ScanCurrent'
  BY <1>1 DEF CursorInv, ScanCurrent
<1> QED BY <1>1, <1>2, <1>3, AsideStep

LEMMA InitCursorInv == Init => CursorInv
<1> SUFFICES ASSUME Init PROVE CursorInv
  OBVIOUS
<1>1. /\ scene \in Scenes /\ now = 1 /\ turn = 1 /\ nonces = 0
      /\ epoch = NoEpoch /\ cursor = NoCursor /\ txn = NoTxn /\ sent = <<>>
      /\ feed = [f \in Feeds |-> <<>>] /\ avail = [f \in Feeds |-> "ok"]
      /\ out = [t \in Tools |-> [nonce |-> 0, kind |-> "turn", text |-> {}]]
  BY DEF Init
<1>2. scene.time \in Nat \ {0} /\ scene.turns \in Nat \ {0} /\ MaxRecords \in Nat
  BY <1>1, NudgeAssumption DEF SceneType
<1>3. out \in [Tools -> Output] /\ \A t \in Tools : out[t].nonce = 0
  BY <1>1 DEF Output
<1>4. \A f \in Feeds : feed[f] = <<>> /\ Len(feed[f]) = 0
  BY <1>1
<1>5. feed \in [Feeds -> Seq(Record)] /\ avail \in [Feeds -> {"ok", "gone", "broken"}]
  BY <1>1
<1>6. 1 \in 1 .. scene.time /\ 1 \in 1 .. scene.turns /\ 0 \in Nat
  BY <1>2
<1>7. <<>> \in Seq(Delivery \union Read)
  OBVIOUS
<1>8. Types
  BY <1>1, <1>3, <1>5, <1>6, <1>7 DEF Types
<1>9. Feeding
  BY <1>2, <1>4 DEF Feeding
<1>10. ScanCurrent
  BY <1>1 DEF ScanCurrent
<1>11. Nonces
  BY <1>1, <1>3 DEF Nonces
<1> QED BY <1>1, <1>8, <1>9, <1>10, <1>11 DEF CursorInv

LEMMA NextKept ==
  ASSUME CursorInv, [Next]_vars
  PROVE  Kept
<1>1. ASSUME NEW f \in scene.feeds, Publish(f) PROVE Kept
  BY <1>1, PublishStep
<1>2. CASE \/ Tick \/ \E f \in scene.feeds : Change(f)
           \/ \E w \in scene.workstreams : Move(w)
  BY <1>2, WorldStep
<1>3. ASSUME NEW t \in Tools, ReadCommand(t) PROVE Kept
  BY <1>3, ReadCommandStep
<1>4. ASSUME NEW h \in HookCalls, Open(h) PROVE Kept
  BY <1>4, OpenStep
<1>5. CASE Expire \/ Check \/ WriteClaim \/ WriteRead \/ Inherit
  BY <1>5, ExpireStep, CheckStep, WriteClaimStep, WriteReadStep, InheritStep
<1>6. ASSUME NEW i \in DOMAIN sent, Emit(i) \/ Fail(i) \/ Rollback(i) PROVE Kept
  BY <1>6, SettleStep, RollbackStep
<1>7. CASE UNCHANGED vars
  BY <1>7, StutterStep
<1> QED BY <1>1, <1>2, <1>3, <1>4, <1>5, <1>6, <1>7 DEF Next

LEMMA CursorInvSkipsNothing == CursorInv => NothingSkipped
<1> SUFFICES ASSUME CursorInv, cursor # NoCursor, NEW k \in Keys, Eligible(cursor, k),
                    k[2] <= cursor.pos[k[1]] \/ Acknowledged(cursor.cov, k)
             PROVE  Shown(cursor, k)
  BY DEF NothingSkipped, Shown, Within
<1>1. Good(cursor)
  BY DEF CursorInv
<1>2. CASE k[2] <= cursor.pos[k[1]]
  BY <1>1, <1>2 DEF Good, Passed
<1>3. CASE Acknowledged(cursor.cov, k)
  BY <1>1, <1>3 DEF Good, Covered, Acknowledged, Shown
<1> QED BY <1>2, <1>3

-----------------------------------------------------------------------------
(* No unread turn of a peer is passed over: whatever hooks, reads and moves
   interleave, what the cursor takes as read was printed for its membership. *)
THEOREM SkipsNothing == Spec => []NothingSkipped
<1>1. CursorInv /\ [Next]_vars => CursorInv'
  BY NextKept DEF Kept
<1> QED BY <1>1, InitCursorInv, CursorInvSkipsNothing, PTL DEF Spec

(* The revision, which re-arms the announcements, never goes back, and within
   a membership it advances only with text that was unread. *)
THEOREM RearmsOnce == Spec => ReadRearmsOnce
<1>1. CursorInv /\ [Next]_vars => CursorInv'
  BY NextKept DEF Kept
<1>2. CursorInv /\ [Next]_vars =>
        [/\ cursor # NoCursor => cursor'.rev >= cursor.rev
         /\ (cursor # NoCursor /\ SameEpoch(cursor', cursor) /\ cursor'.rev # cursor.rev)
            => \E b \in Taken(cursor') \ Taken(cursor) : Eligible(cursor, b)]_vars
  BY NextKept DEF Kept, Rearms
<1> QED BY <1>1, <1>2, InitCursorInv, PTL DEF Spec, ReadRearmsOnce

-----------------------------------------------------------------------------
(* Deliveries *)

Entry == Delivery \union Read

Live(e) == e.stage \in {"claimed", "emitted"}

(* A Stop that blocked its turn, or may yet have ... *)
Standing(e) == e.op = "stop" /\ e.stage # "void"

(* ... and one whose claim may still be rolled back. *)
Revocable(e) == e.op = "stop" /\ e.stage \in {"claimed", "failed"}

(* d was claimed before e.  The marks that a Stop would restore are not below
   the counts told before it, and those told since are above its own. *)
Told(d, e) ==
    d.rev = e.rev =>
        /\ Live(d) /\ e.op \in Informational => d.count < e.count
        /\ ~(Standing(d) /\ e.op = "stop")
        /\ e.op # "read"
        /\ Live(d) /\ Revocable(e) => d.count <= e.before[1]
        /\ Revocable(d) /\ Live(e) => d.after[1] < e.count

(* No Stop for a turn of Codex that a read informed. *)
Spared(d, e) ==
    d.rev = e.rev /\ e.op = "stop" /\ d.op = "read" => d.turn # e.turn

Pair(d, e) == Told(d, e) /\ (~Claude => Spared(d, e))

History(S) == \A j \in DOMAIN S : \A i \in 1 .. j - 1 : Pair(S[i], S[j])

-----------------------------------------------------------------------------
(* Deliveries and the cursor *)

(* The marks of the revision stand for what was delivered at it. *)
Marked(e, c) ==
    /\ e.rev <= c.rev
    /\ e.rev = c.rev =>
          /\ Standing(e) => c.stop = c.rev
          /\ Live(e) => e.count <= c.high
          /\ Revocable(e) => e.after[1] <= c.high

Informed(e, c) == e.rev = c.rev /\ e.op = "read" => e.turn = c.informed

(* Only a Stop fails, and nothing is forgotten. *)
Staged(e) == e.stage # "forgotten" /\ (e.op # "stop" => Live(e))

Booked(e, c) == Staged(e) /\ Marked(e, c) /\ (~Claude => Informed(e, c))

Ledger ==
    IF cursor = NoCursor THEN sent = <<>>
    ELSE /\ cursor.v # 1
         /\ \A i \in DOMAIN sent : Booked(sent[i], cursor)
         /\ History(sent)

LedgerInv ==
    /\ CursorInv
    /\ scene.version # 1
    /\ Ledger

-----------------------------------------------------------------------------
(* What the invariant says of the properties *)

LEMMA LedgerInvTellsOnce == LedgerInv => ToldOnce
<1> SUFFICES ASSUME LedgerInv PROVE ToldOnce
  OBVIOUS
<1>1. sent \in Seq(Entry)
  BY DEF LedgerInv, CursorInv, Types, Entry
<1>2. cursor = NoCursor => DOMAIN sent = {}
  BY DEF LedgerInv, Ledger
<1>3. ASSUME NEW j \in DOMAIN sent, NEW i \in 1 .. j - 1
      PROVE  /\ i \in DOMAIN sent /\ Told(sent[i], sent[j]) /\ Staged(sent[i])
             /\ sent[i] \in Entry
  <2>1. cursor # NoCursor
    BY <1>2
  <2>2. i \in DOMAIN sent
    BY <1>1
  <2> QED BY <1>1, <2>1, <2>2 DEF LedgerInv, Ledger, History, Pair, Booked
<1>4. AnnouncedOnce
  <2> SUFFICES ASSUME NEW j \in DOMAIN sent, sent[j].op \in Informational,
                      NEW i \in 1 .. j - 1, sent[i].rev = sent[j].rev,
                      sent[i].stage \notin {"failed", "void", "forgotten"}
               PROVE  sent[i].count < sent[j].count
    BY DEF AnnouncedOnce
  <2>1. Told(sent[i], sent[j]) /\ sent[i] \in Entry
    BY <1>3
  <2>2. Live(sent[i])
    BY <2>1 DEF Live, Entry, Delivery, Read
  <2> QED BY <2>1, <2>2 DEF Told
<1>5. StopOnce
  <2> SUFFICES ASSUME NEW i \in DOMAIN sent, NEW j \in DOMAIN sent,
                      sent[i].op = "stop", sent[i].stage \in {"claimed", "emitted"},
                      i < j, sent[j].op = "stop"
               PROVE  sent[i].rev # sent[j].rev
    BY DEF StopOnce
  <2>1. i \in 1 .. j - 1
    BY <1>1
  <2> QED BY <1>3, <2>1 DEF Told, Standing
<1> QED BY <1>4, <1>5 DEF ToldOnce

-----------------------------------------------------------------------------
(* Histories *)

LEMMA HistoryAppend ==
  ASSUME NEW S \in Seq(Entry), NEW e \in Entry, History(S),
         \A i \in DOMAIN S : Pair(S[i], e)
  PROVE  History(Append(S, e))
<1> DEFINE T == Append(S, e)
<1>1. /\ Len(S) \in Nat /\ DOMAIN S = 1 .. Len(S) /\ DOMAIN T = 1 .. Len(S) + 1
      /\ \A i \in 1 .. Len(S) : T[i] = S[i]
      /\ T[Len(S) + 1] = e
  OBVIOUS
<1> HIDE DEF T
<1> SUFFICES ASSUME NEW j \in DOMAIN T, NEW i \in 1 .. j - 1
             PROVE  Pair(T[i], T[j])
  BY DEF History, T
<1>2. i \in 1 .. Len(S)
  BY <1>1
<1>3. CASE j = Len(S) + 1
  BY <1>1, <1>2, <1>3
<1>4. CASE j # Len(S) + 1
  <2>1. j \in 1 .. Len(S)
    BY <1>1, <1>4
  <2> QED BY <1>1, <1>2, <2>1 DEF History
<1> QED BY <1>3, <1>4

(* A delivery settles: it only becomes less. *)
Settled(d, e) ==
    /\ e.op = d.op /\ e.rev = d.rev /\ e.count = d.count /\ e.turn = d.turn
    /\ e.before = d.before /\ e.after = d.after
    /\ Live(e) => Live(d)
    /\ Standing(e) => Standing(d)
    /\ Revocable(e) => Revocable(d)

LEMMA PairSettles ==
  ASSUME NEW d, NEW e, NEW f, Settled(d, f)
  PROVE  /\ Pair(d, e) => Pair(f, e)
         /\ Pair(e, d) => Pair(e, f)
<1>1. Told(d, e) => Told(f, e)
  BY DEF Settled, Told
<1>2. Told(e, d) => Told(e, f)
  BY DEF Settled, Told
<1>3. Spared(d, e) => Spared(f, e)
  BY DEF Settled, Spared
<1>4. Spared(e, d) => Spared(e, f)
  BY DEF Settled, Spared
<1> QED BY <1>1, <1>2, <1>3, <1>4 DEF Pair

LEMMA HistorySettles ==
  ASSUME NEW S \in Seq(Entry), History(S), NEW k \in DOMAIN S, NEW f, Settled(S[k], f)
  PROVE  History([S EXCEPT ![k] = f])
<1> DEFINE T == [S EXCEPT ![k] = f]
<1>1. /\ Len(S) \in Nat /\ DOMAIN S = 1 .. Len(S) /\ DOMAIN T = DOMAIN S
      /\ T[k] = f /\ \A i \in DOMAIN S : i # k => T[i] = S[i]
  OBVIOUS
<1> HIDE DEF T
<1> SUFFICES ASSUME NEW j \in DOMAIN T, NEW i \in 1 .. j - 1
             PROVE  Pair(T[i], T[j])
  BY DEF History, T
<1>2. i \in DOMAIN S /\ j \in DOMAIN S /\ i # j
  BY <1>1
<1>3. Pair(S[i], S[j])
  BY <1>2 DEF History
<1>4. CASE i = k
  BY <1>1, <1>2, <1>3, <1>4, PairSettles
<1>5. CASE j = k
  BY <1>1, <1>2, <1>3, <1>5, PairSettles
<1>6. CASE i # k /\ j # k
  BY <1>1, <1>2, <1>3, <1>6
<1> QED BY <1>4, <1>5, <1>6

-----------------------------------------------------------------------------
(* The cursor that a transaction works on *)

(* c and d have the same marks at the same revision. *)
SameMarks(c, d) ==
    /\ d.rev = c.rev /\ d.stop = c.stop /\ d.high = c.high
    /\ ~Claude => d.last = c.last /\ d.informed = c.informed

Unmarked(c) == c.stop = 0 /\ c.high = 0 /\ c.last = 0

LEMMA VirtualMarks ==
  ASSUME LedgerInv, NEW ep \in Epoch
  PROVE  LET v == Virtual(ep) IN
         /\ v.v = 3
         /\ SameEpoch(cursor, ep) => cursor # NoCursor /\ SameMarks(cursor, v)
         /\ ~SameEpoch(cursor, ep) => Unmarked(v) /\ v.informed = 0 /\ v.rev = Rev + 1
<1> DEFINE v == Virtual(ep)
<1>1. CASE SameEpoch(cursor, ep)
  <2>1. cursor # NoCursor /\ cursor \in Cursor /\ cursor.v # 1
    BY <1>1 DEF SameEpoch, LedgerInv, CursorInv, Types, Ledger
  <2>2. v = [cursor EXCEPT !.v = 3]
    BY <1>1, <2>1 DEF Virtual, Migrated
  <2> HIDE DEF v
  <2>3. v.v = 3 /\ SameMarks(cursor, v)
    BY <2>1, <2>2 DEF Cursor, SameMarks
  <2> QED BY <1>1, <2>1, <2>3 DEF v
<1>2. CASE ~SameEpoch(cursor, ep)
  <2>1. v = FirstCursor(ep)
    BY <1>2 DEF Virtual
  <2>2. v.v = 3 /\ Unmarked(v) /\ v.informed = 0 /\ v.rev = Rev + 1
    BY <2>1 DEF FirstCursor, Unmarked
  <2> QED BY <1>2, <2>2
<1> QED BY <1>1, <1>2

LEMMA EstablishMarks ==
  ASSUME NEW c \in Cursor, NEW h
  PROVE  SameMarks(c, Establish(c, h)) /\ Establish(c, h).v = c.v
<1> DEFINE d == Establish(c, h)
<1>1. CASE ~Claude \/ h.op # "prompt" \/ cursor = NoCursor
  <2>1. d = c
    BY <1>1 DEF Establish
  <2> QED BY <2>1 DEF SameMarks
<1>2. CASE ~(~Claude \/ h.op # "prompt" \/ cursor = NoCursor)
  <2> DEFINE carry == h.flag /\ SameEpoch(cursor, c) /\ cursor.v = 3
             i == IF carry /\ c.informed = c.gen THEN c.gen + 1 ELSE c.informed
             l == IF carry /\ c.last = c.gen THEN c.gen + 1 ELSE c.last
  <2>1. d = [c EXCEPT !.gen = c.gen + 1, !.informed = i, !.last = l]
    BY <1>2 DEF Establish, Cursor
  <2> HIDE DEF i, l, d
  <2>2. d.rev = c.rev /\ d.stop = c.stop /\ d.high = c.high /\ d.v = c.v
    BY <2>1 DEF Cursor
  <2> QED BY <1>2, <2>2 DEF SameMarks, d
<1> QED BY <1>1, <1>2

(* The delivery e of a claim takes the marks from those of c to those of d. *)
Claimed(c, d, e, h, ep, t) ==
    /\ e \in Delivery
    /\ e.op = h.op /\ e.rev = c.rev /\ e.stage = "claimed"
    /\ e.ws = ep.ws /\ e.from = ep.from
    /\ e.before[1] = c.high /\ e.after = <<d.high, d.last>>
    /\ d.rev = c.rev /\ d.high \in {c.high, e.count} /\ d.high >= c.high
    /\ d.high >= e.count /\ e.count > 0
    /\ IF h.op = "stop" THEN d.stop = d.rev /\ c.stop # c.rev
                        ELSE d.stop = c.stop /\ e.count > c.high
    /\ ~Claude =>
          /\ e.turn = t /\ e.before[2] = c.last
          /\ d.last = t /\ d.informed = c.informed
          /\ h.op = "stop" => t \notin {c.last, c.informed}

LEMMA ClaimMarks ==
  ASSUME LedgerInv, NEW ep \in Epoch, NEW sc \in ScanType, NEW t \in Nat, NEW h,
         h.op \in {"prompt", "tool", "stop"}
  PROVE  LET v == Virtual(ep)
             d == Claim(h, ep, sc, t).cursor
             s == Claim(h, ep, sc, t).sent
         IN /\ d.v = 3
            /\ \/ s = <<>> /\ SameMarks(v, d)
               \/ \E e : s = <<e>> /\ Claimed(v, d, e, h, ep, t)
<1> DEFINE v == Virtual(ep)
           c0 == Establish(v, h)
           ct == TurnOf(c0, t)
           count == Cardinality(Unread(c0, sc))
           c1 == Attributed(c0, h, ep, count, ct)
           sameTurn == ct \in {c1.last, c1.informed}
           c2 == Retire(c1, h, sameTurn)
           due == ~Latched(h, c2) /\ Due(h, c2, count, sameTurn)
           c3 == IF Latched(h, c2) THEN c2 ELSE Collapse(c2, sc)
           high == IF count > c3.high THEN count ELSE c3.high
           c4 == IF due
                 THEN [c3 EXCEPT !.stop = IF h.op = "stop" THEN c3.rev ELSE @,
                                 !.high = high, !.last = ct]
                 ELSE IF ~Latched(h, c2) /\ count = 0 /\ ~Incomplete(c2, sc)
                 THEN [c3 EXCEPT !.outside = FALSE]
                 ELSE c3
           told == [op |-> h.op, ws |-> ep.ws, from |-> ep.from, rev |-> c4.rev,
                    count |-> count, turn |-> ct, stage |-> "claimed",
                    before |-> <<c1.high, c1.last>>, after |-> <<high, ct>>]
<1>1. /\ Claim(h, ep, sc, t).cursor = c4
      /\ Claim(h, ep, sc, t).sent = IF ~due THEN <<>> ELSE <<told>>
  BY DEF Claim
<1>2. /\ Types /\ CursorInv /\ v \in Cursor /\ v.v = 3
      /\ SameEpoch(cursor, ep) => cursor.v # 1
  <2>1. Types /\ CursorInv /\ (SameEpoch(cursor, ep) => cursor.v # 1)
    BY DEF LedgerInv, CursorInv, Ledger, SameEpoch
  <2>2. v \in Cursor
    BY <2>1, VirtualProperties
  <2> QED BY <2>1, <2>2, VirtualMarks
<1> HIDE DEF v
<1>3. c0 \in Cursor /\ SameMarks(v, c0) /\ c0.v = 3
  BY <1>2, EstablishProperties, EstablishMarks
<1> HIDE DEF c0
<1>4. ct \in Nat /\ count \in Nat /\ (~Claude => ct = t)
  BY <1>2, <1>3, TurnOfType, UnreadFinite DEF TurnOf
<1> HIDE DEF ct, count
<1>5. c1 = c0
  BY <1>2 DEF Attributed
<1> HIDE DEF c1
<1>6. /\ c2 \in Cursor /\ c2.v = 3 /\ SameMarks(c1, c2)
  BY <1>3, <1>5 DEF Retire, Cursor, SameMarks
<1> HIDE DEF c2
<1> DEFINE Marks == {"stop", "high", "last", "informed", "rev", "v", "outside"}
<1>7. /\ Marks \subseteq DOMAIN c3 /\ c3.v = 3 /\ SameMarks(c2, c3)
  <2>1. Marks \subseteq DOMAIN c2
    BY <1>6 DEF Cursor
  <2>2. CASE Latched(h, c2)
    BY <1>6, <2>1, <2>2 DEF SameMarks
  <2>3. CASE ~Latched(h, c2)
    <3> DEFINE pos == [f \in Feeds |-> Prefix(c2, sc, f)]
               cov == {b \in c2.cov : b[2] > pos[b[1]]}
    <3>1. c3 = [c2 EXCEPT !.pos = pos, !.cov = cov]
      BY <2>3 DEF Collapse
    <3> HIDE DEF pos, cov, c3
    <3>2. DOMAIN c3 = DOMAIN c2 /\ \A x \in Marks : c3[x] = c2[x]
      BY <1>6, <3>1 DEF Cursor
    <3> QED BY <1>6, <2>1, <3>2 DEF SameMarks
  <2> QED BY <2>2, <2>3
<1>8. SameMarks(v, c2) /\ SameMarks(v, c3)
  BY <1>3, <1>5, <1>6, <1>7 DEF SameMarks
<1>9. c3.high \in Nat /\ c3.rev \in Nat /\ c1.high \in Nat /\ c1.last \in Nat
  BY <1>3, <1>5, <1>6, <1>7 DEF SameMarks, Cursor
<1>10. c1.high = c3.high /\ v.stop = c3.stop /\ v.rev = c3.rev /\ v.high = c3.high
  BY <1>3, <1>5, <1>8 DEF SameMarks
<1>11. CASE ~due
  <2>1. c4 \in {c3, [c3 EXCEPT !.outside = FALSE]}
    BY <1>11
  <2> HIDE DEF c3, c4, due
  <2>2. c4.v = 3 /\ SameMarks(c3, c4)
    BY <1>7, <2>1 DEF SameMarks
  <2>3. SameMarks(v, c4)
    BY <1>8, <2>2 DEF SameMarks
  <2> QED BY <1>1, <1>11, <2>2, <2>3 DEF v
<1>12. CASE due
  <2>1. count > 0 /\ IF h.op = "stop" THEN ~sameTurn /\ c2.stop # c2.rev ELSE count > c2.high
    BY <1>12 DEF Due, Latched
  <2> DEFINE s == IF h.op = "stop" THEN c3.rev ELSE c3.stop
  <2>2. c4 = [c3 EXCEPT !.stop = s, !.high = high, !.last = ct]
    BY <1>12
  <2> HIDE DEF c3
  <2>3. high \in Nat /\ high \in {c3.high, count} /\ high >= c3.high /\ high >= count
    BY <1>4, <1>9
  <2> HIDE DEF c4, high, due, s
  <2>4. /\ c4.v = 3 /\ c4.rev = c3.rev /\ c4.stop = s /\ c4.high = high /\ c4.last = ct
        /\ c4.informed = c3.informed
    BY <1>7, <2>2
  <2>5. told \in Delivery
    <3>1. c4.rev \in Nat
      BY <1>9, <2>4
    <3> QED BY <1>4, <1>9, <2>3, <3>1 DEF Delivery, Epoch
  <2>6. /\ told.op = h.op /\ told.rev = v.rev /\ told.stage = "claimed"
        /\ told.ws = ep.ws /\ told.from = ep.from /\ told.count = count /\ told.turn = ct
        /\ told.before[1] = v.high /\ told.before[2] = c1.last
        /\ told.after = <<c4.high, c4.last>>
    BY <1>10, <2>4
  <2> HIDE DEF told
  <2>7. IF h.op = "stop" THEN c4.stop = c4.rev /\ v.stop # v.rev
                         ELSE c4.stop = v.stop /\ told.count > v.high
    <3>1. c2.stop = v.stop /\ c2.rev = v.rev /\ c2.high = v.high
      BY <1>8 DEF SameMarks
    <3> QED BY <1>10, <2>1, <2>4, <2>6, <3>1 DEF s
  <2>8. ASSUME ~Claude
        PROVE  /\ told.turn = t /\ told.before[2] = v.last
               /\ c4.last = t /\ c4.informed = v.informed
               /\ h.op = "stop" => t \notin {v.last, v.informed}
    <3>1. c1.last = v.last /\ c1.informed = v.informed /\ c3.informed = v.informed
      BY <1>3, <1>5, <1>8, <2>8 DEF SameMarks
    <3> QED BY <1>4, <2>1, <2>4, <2>6, <2>8, <3>1
  <2>9. Claimed(v, c4, told, h, ep, t)
    BY <1>10, <2>1, <2>3, <2>4, <2>5, <2>6, <2>7, <2>8 DEF Claimed
  <2> QED BY <1>1, <1>12, <2>4, <2>9 DEF v
<1> QED BY <1>11, <1>12

(* What a read hook writes keeps the marks, or wipes them at a new revision. *)
ReadMarked(v, d, t) ==
    /\ d.v = v.v
    /\ \/ SameMarks(v, d)
       \/ /\ d.rev = v.rev + 1 /\ Unmarked(d)
          /\ ~Claude => d.informed = t

(* A preview changes what was read only, and adds to it only if it advances. *)
LEMMA PreviewMarks ==
  ASSUME NEW c, NEW sc, NEW text, {"pos", "cov"} \subseteq DOMAIN c
  PROVE  LET pv == Preview(c, text, sc) IN
         /\ DOMAIN pv.cursor = DOMAIN c
         /\ \A x \in DOMAIN c \ {"pos", "cov"} : pv.cursor[x] = c[x]
         /\ ~pv.advanced => pv.cursor.cov \subseteq c.cov
<1> DEFINE pv == Preview(c, text, sc)
           base == Collapse(c, sc)
           added == {b \in text : <<b[1], b[2]>> \in Unread(c, sc)}
           more == [base EXCEPT !.cov = base.cov \union added]
<1>1. ASSUME NEW e, {"pos", "cov"} \subseteq DOMAIN e
      PROVE  /\ DOMAIN Collapse(e, sc) = DOMAIN e
             /\ \A x \in DOMAIN e \ {"pos", "cov"} : Collapse(e, sc)[x] = e[x]
             /\ Collapse(e, sc).cov \subseteq e.cov
  <2> DEFINE pos == [f \in Feeds |-> Prefix(e, sc, f)]
             cov == {b \in e.cov : b[2] > pos[b[1]]}
  <2>1. Collapse(e, sc) = [e EXCEPT !.pos = pos, !.cov = cov] /\ cov \subseteq e.cov
    BY DEF Collapse
  <2> HIDE DEF pos, cov
  <2> QED BY <1>1, <2>1
<1>2. pv.cursor = Collapse(more, sc) /\ pv.advanced = ~(added \subseteq base.cov)
  BY DEF Preview
<1>3. /\ DOMAIN base = DOMAIN c /\ \A x \in DOMAIN c \ {"pos", "cov"} : base[x] = c[x]
      /\ base.cov \subseteq c.cov
  BY <1>1
<1> HIDE DEF pv, base, added
<1>4. /\ DOMAIN more = DOMAIN base /\ \A x \in DOMAIN base \ {"cov"} : more[x] = base[x]
      /\ more.cov = base.cov \union added
  BY <1>3
<1> HIDE DEF more
<1>5. /\ DOMAIN pv.cursor = DOMAIN more
      /\ \A x \in DOMAIN more \ {"pos", "cov"} : pv.cursor[x] = more[x]
      /\ pv.cursor.cov \subseteq more.cov
  BY <1>1, <1>2, <1>3, <1>4
<1> QED BY <1>2, <1>3, <1>4, <1>5 DEF pv

LEMMA ReadMarks ==
  ASSUME NEW ep \in Epoch, NEW sc, NEW t \in Nat,
         NEW h \in HookCalls, h.op \notin {"prompt", "tool", "stop"},
         Virtual(ep) \in Cursor, NEW d \in ReadResult(h, ep, sc, t)
  PROVE  ReadMarked(Virtual(ep), d, t)
<1> DEFINE c == Virtual(ep)
<1>1. h.op \in {"reserve", "stage", "commit", "discard"}
  BY DEF HookCalls
<1>2. ASSUME NEW ps, d = [c EXCEPT !.pending = ps]
      PROVE  ReadMarked(c, d, t)
  <2> HIDE DEF c
  <2>1. d.v = c.v /\ SameMarks(c, d)
    BY <1>2 DEF Cursor, SameMarks, c
  <2> QED BY <2>1 DEF ReadMarked
<1>3. CASE h.op = "reserve"
  BY <1>2, <1>3 DEF ReadResult, Reserve, AddPending
<1>4. CASE h.op = "stage"
  BY <1>2, <1>4 DEF ReadResult, Stage
<1>5. CASE h.op = "discard"
  BY <1>2, <1>5 DEF ReadResult, Discard
<1>6. CASE h.op = "commit"
  <2>1. d \in Commit(c, h, sc, t)
    BY <1>6 DEF ReadResult
  <2>2. PICK p \in Matching(c, h.tool, t) :
          LET pv == Preview(c, p.text, sc)
              n == [pv.cursor EXCEPT !.pending = @ \ {p}]
              left == Unread(n, sc) # {} \/ Incomplete(n, sc)
          IN \/ d = n
             \/ d = [c EXCEPT !.pending = @ \ {p}]
             \/ d = [Rearm(n, TurnOf(c, t)) EXCEPT
                              !.outside = left /\ (out[h.tool].kind = "context" \/ c.outside)]
    BY <2>1 DEF Commit
  <2> DEFINE pv == Preview(c, p.text, sc)
             n == [pv.cursor EXCEPT !.pending = @ \ {p}]
             left == Unread(n, sc) # {} \/ Incomplete(n, sc)
             outside == left /\ (out[h.tool].kind = "context" \/ c.outside)
             Marks == {"stop", "high", "last", "informed", "rev", "v", "outside"}
  <2>3. Marks \subseteq DOMAIN n /\ \A x \in Marks : n[x] = c[x]
    <3> HIDE DEF c
    <3>1. Marks \union {"pos", "cov", "pending"} \subseteq DOMAIN c
      BY DEF Cursor, c
    <3>2. /\ DOMAIN pv.cursor = DOMAIN c
          /\ \A x \in DOMAIN c \ {"pos", "cov"} : pv.cursor[x] = c[x]
      BY <3>1, PreviewMarks
    <3> HIDE DEF pv
    <3> QED BY <3>1, <3>2
  <2>4. /\ SameMarks(c, n) /\ n.v = c.v
        /\ {"rev", "stop", "high", "last", "informed", "outside"} \subseteq DOMAIN n
    BY <2>3 DEF SameMarks
  <2>5. CASE d = n
    BY <2>4, <2>5 DEF ReadMarked
  <2>6. CASE d = [c EXCEPT !.pending = @ \ {p}]
    BY <1>2, <2>6
  <2>7. CASE d = [Rearm(n, TurnOf(c, t)) EXCEPT !.outside = outside]
    <3>1. ~Claude => TurnOf(c, t) = t
      BY DEF TurnOf
    <3> HIDE DEF n, outside, c
    <3>2. d = [n EXCEPT !.rev = n.rev + 1, !.stop = 0, !.high = 0, !.last = 0,
                        !.informed = TurnOf(c, t), !.outside = outside]
      BY <2>4, <2>7 DEF Rearm
    <3>3. /\ d.v = n.v /\ d.rev = n.rev + 1 /\ d.stop = 0 /\ d.high = 0 /\ d.last = 0
          /\ d.informed = TurnOf(c, t)
      BY <2>3, <2>4, <3>2
    <3> QED BY <2>4, <3>1, <3>3 DEF ReadMarked, Unmarked, SameMarks, c
  <2> HIDE DEF c
  <2> QED BY <2>2, <2>5, <2>6, <2>7 DEF c
<1> QED BY <1>1, <1>3, <1>4, <1>5, <1>6

-----------------------------------------------------------------------------
(* Entries and new marks *)

LEMMA EntryTypes ==
  ASSUME NEW e \in Entry
  PROVE  /\ e.rev \in Nat /\ e.count \in Nat /\ e.turn \in Nat
         /\ e.op \in {"prompt", "tool", "stop", "read"}
         /\ e.op # "read" => e \in Delivery /\ e.before[1] \in Nat /\ e.before[2] \in Nat
                             /\ e.after[1] \in Nat /\ e.after[2] \in Nat
         /\ e.op = "read" => e \in Read
BY DEF Entry, Delivery, Read

LEMMA BookedSame ==
  ASSUME NEW e, NEW c, NEW d, SameMarks(c, d), Booked(e, c)
  PROVE  Booked(e, d)
BY DEF Booked, Marked, Informed, SameMarks

LEMMA BookedNewer ==
  ASSUME NEW e \in Entry, NEW c \in Cursor, NEW d \in Cursor, c.rev < d.rev,
         Booked(e, c)
  PROVE  Booked(e, d) /\ e.rev < d.rev
<1>1. e.rev \in Nat /\ c.rev \in Nat /\ d.rev \in Nat /\ e.rev <= c.rev
  BY EntryTypes DEF Booked, Marked, Cursor
<1>2. e.rev < d.rev /\ e.rev <= d.rev /\ e.rev # d.rev
  BY <1>1
<1> QED BY <1>2 DEF Booked, Marked, Informed

LEMMA BookedSettles ==
  ASSUME NEW d, NEW e, NEW c, Settled(d, e), Booked(d, c), Staged(e)
  PROVE  Booked(e, c)
<1>1. Marked(e, c)
  BY DEF Settled, Booked, Marked
<1>2. Informed(d, c) => Informed(e, c)
  BY DEF Settled, Informed
<1> QED BY <1>1, <1>2 DEF Booked

(* Something new is told at a revision: more than all that was live, and by a
   Stop only if none stands. *)
LEMMA ClaimedAfter ==
  ASSUME NEW c \in Cursor, NEW d \in Cursor, NEW s \in Entry, NEW e, NEW h, NEW ep,
         NEW t \in Nat, h.op \in {"prompt", "tool", "stop"},
         Claimed(c, d, e, h, ep, t), Booked(s, c)
  PROVE  Pair(s, e) /\ Booked(s, d)
<1>1. /\ s.rev \in Nat /\ s.count \in Nat /\ s.turn \in Nat
      /\ s.op = "stop" => s.after[1] \in Nat
      /\ s.op \in {"prompt", "tool", "stop", "read"}
  BY EntryTypes
<1>2. /\ c.high \in Nat /\ d.high \in Nat /\ e.count \in Nat /\ c.last \in Nat
      /\ c.rev \in Nat /\ e.op \in {"prompt", "tool", "stop"}
      /\ e.op = h.op /\ e.rev = c.rev /\ d.rev = c.rev /\ d.high >= c.high
      /\ e.before[1] = c.high
  BY DEF Cursor, Claimed, Delivery
<1>3. e.op # "stop" => e.count > c.high /\ d.stop = c.stop
  BY <1>2 DEF Claimed
<1>4. e.op = "stop" => c.stop # c.rev /\ d.stop = d.rev
  BY <1>2 DEF Claimed
<1>5. s.rev = c.rev =>
        /\ Standing(s) => c.stop = c.rev
        /\ Live(s) => s.count <= c.high
        /\ Revocable(s) => s.after[1] <= c.high
  BY DEF Booked, Marked
<1>6. Revocable(s) => Standing(s) /\ s.op = "stop"
  BY DEF Revocable, Standing
<1>7. Told(s, e)
  <2> SUFFICES ASSUME s.rev = e.rev
               PROVE  /\ Live(s) /\ e.op \in Informational => s.count < e.count
                      /\ ~(Standing(s) /\ e.op = "stop")
                      /\ e.op # "read"
                      /\ Live(s) /\ Revocable(e) => s.count <= e.before[1]
                      /\ Revocable(s) /\ Live(e) => s.after[1] < e.count
    BY DEF Told
  <2>1. Live(s) /\ e.op \in Informational => s.count < e.count
    BY <1>1, <1>2, <1>3, <1>5 DEF Informational
  <2>2. ~(Standing(s) /\ e.op = "stop")
    BY <1>2, <1>4, <1>5
  <2>3. Revocable(s) => s.after[1] < e.count
    <3> SUFFICES ASSUME Revocable(s) PROVE s.after[1] < e.count
      OBVIOUS
    <3>1. e.op # "stop" /\ s.after[1] <= c.high /\ s.after[1] \in Nat
      BY <1>1, <1>2, <1>5, <1>6, <2>2
    <3> QED BY <1>2, <1>3, <3>1
  <2> QED BY <1>2, <1>5, <2>1, <2>2, <2>3
<1>8. ASSUME ~Claude
      PROVE  Spared(s, e) /\ Informed(s, d)
  <2>1. /\ e.turn = t /\ d.informed = c.informed
        /\ h.op = "stop" => t # c.informed
    BY <1>8 DEF Claimed
  <2>2. s.rev = c.rev /\ s.op = "read" => s.turn = c.informed
    BY <1>8 DEF Booked, Informed
  <2>3. Spared(s, e)
    BY <1>2, <2>1, <2>2 DEF Spared
  <2>4. Informed(s, d)
    BY <1>2, <2>1, <2>2 DEF Informed
  <2> QED BY <2>3, <2>4
<1>9. Marked(s, d)
  <2>1. s.rev <= d.rev
    BY <1>2 DEF Booked, Marked
  <2>2. ASSUME s.rev = d.rev
        PROVE  /\ Standing(s) => d.stop = d.rev
               /\ Live(s) => s.count <= d.high
               /\ Revocable(s) => s.after[1] <= d.high
    <3>1. Standing(s) => d.stop = d.rev
      BY <1>2, <1>3, <1>4, <1>5, <2>2
    <3>2. Live(s) => s.count <= d.high
      BY <1>1, <1>2, <1>5, <2>2
    <3>3. Revocable(s) => s.after[1] <= d.high
      BY <1>1, <1>2, <1>5, <1>6, <2>2
    <3> QED BY <3>1, <3>2, <3>3
  <2> QED BY <2>1, <2>2 DEF Marked
<1> QED BY <1>7, <1>8, <1>9 DEF Pair, Booked

LEMMA ClaimedBooked ==
  ASSUME NEW c \in Cursor, NEW d \in Cursor, NEW e, NEW h, NEW ep, NEW t \in Nat,
         h.op \in {"prompt", "tool", "stop"}, Claimed(c, d, e, h, ep, t)
  PROVE  Booked(e, d)
<1>1. /\ e.op \in {"prompt", "tool", "stop"} /\ e.op = h.op /\ e.stage = "claimed"
      /\ e.rev = d.rev /\ d.rev \in Nat /\ d.high \in Nat /\ e.after[1] = d.high
      /\ e.count <= d.high
  BY DEF Claimed, Delivery, Cursor
<1>2. Staged(e)
  BY <1>1 DEF Staged, Live
<1>3. Marked(e, d)
  <2>1. Standing(e) => d.stop = d.rev
    BY <1>1 DEF Claimed, Standing
  <2> QED BY <1>1, <2>1 DEF Marked
<1>4. Informed(e, d)
  BY <1>1 DEF Informed
<1> QED BY <1>2, <1>3, <1>4 DEF Booked

-----------------------------------------------------------------------------
(* Steps *)

(* The cursor a transaction starts from is no worse than the file's. *)
LEMMA VirtualBooks ==
  ASSUME LedgerInv, NEW ep \in Epoch
  PROVE  LET v == Virtual(ep) IN
         /\ v \in Cursor
         /\ History(sent)
         /\ \A i \in DOMAIN sent : /\ Booked(sent[i], v)
                                   /\ ~SameEpoch(cursor, ep) => sent[i].rev < v.rev
<1> DEFINE v == Virtual(ep)
<1>1. /\ CursorInv /\ Types /\ turn \in Nat /\ sent \in Seq(Entry)
      /\ cursor # NoCursor => cursor \in Cursor
  BY SceneFacts DEF LedgerInv, CursorInv, Types, Entry
<1>2. v \in Cursor
  BY <1>1, VirtualProperties
<1>3. /\ SameEpoch(cursor, ep) => cursor # NoCursor /\ SameMarks(cursor, v)
      /\ ~SameEpoch(cursor, ep) => Unmarked(v) /\ v.informed = 0 /\ v.rev = Rev + 1
  BY VirtualMarks
<1> HIDE DEF v
<1>5. CASE cursor = NoCursor
  <2>1. sent = <<>>
    BY <1>5 DEF LedgerInv, Ledger
  <2> QED BY <1>2, <2>1 DEF v, History
<1>6. CASE cursor # NoCursor
  <2>1. History(sent) /\ \A i \in DOMAIN sent : Booked(sent[i], cursor)
    BY <1>6 DEF LedgerInv, Ledger
  <2>2. ASSUME NEW i \in DOMAIN sent
        PROVE  /\ Booked(sent[i], v)
               /\ ~SameEpoch(cursor, ep) => sent[i].rev < v.rev
    <3>1. sent[i] \in Entry /\ Booked(sent[i], cursor)
      BY <1>1, <2>1
    <3>2. CASE SameEpoch(cursor, ep)
      BY <1>3, <3>1, <3>2, BookedSame
    <3>3. CASE ~SameEpoch(cursor, ep)
      <4>1. cursor \in Cursor /\ cursor.rev < v.rev
        BY <1>1, <1>3, <1>6, <3>3 DEF Rev, Cursor
      <4> QED BY <1>2, <3>1, <4>1, BookedNewer
    <3> QED BY <3>2, <3>3
  <2> QED BY <1>2, <2>1, <2>2 DEF v
<1> QED BY <1>5, <1>6

LEMMA CursorsBound ==
  ASSUME Types
  PROVE  Cursor \subseteq Cursors
<1>1. scene.time \in Nat /\ scene.feeds \subseteq Feeds /\ MaxRecords \in Nat
      /\ scene.units \subseteq Units
  BY NudgeAssumption DEF Types, SceneType
<1>2. SUBSET Bits \subseteq SUBSET (Feeds \X Nat \X Fields \X Units)
  BY <1>1 DEF Bits
<1>3. 1 .. scene.time \subseteq Nat
  BY <1>1
<1> QED BY <1>2, <1>3 DEF Cursor, Cursors, Pending

LEMMA NoCursorIsNone ==
  ASSUME Types
  PROVE  NoCursor \notin Cursor
BY CursorsBound, NudgeAssumption

(* A hook wrote the cursor d and the deliveries S. *)
LEMMA LedgerWritten ==
  ASSUME LedgerInv, CursorInv', UNCHANGED scene,
         NEW d \in Cursor, cursor' = d, d.v # 1,
         NEW S, sent' = S, History(S),
         \A i \in DOMAIN S : Booked(S[i], d)
  PROVE  LedgerInv'
<1>1. Claude' = Claude
  BY DEF Claude
<1>2. History(S)' /\ \A i \in DOMAIN S : Booked(S[i], d)'
  BY <1>1 DEF History, Pair, Booked
<1>3. d # NoCursor
  BY NoCursorIsNone DEF CursorInv, LedgerInv
<1>4. Ledger'
  BY <1>1, <1>2, <1>3 DEF Ledger
<1> QED BY <1>4 DEF LedgerInv

LEMMA WriteClaimLedger ==
  ASSUME LedgerInv, WriteClaim
  PROVE  LedgerInv'
<1>1. /\ UNCHANGED <<scene, turn>> /\ txn' = NoTxn /\ txn # NoTxn
      /\ txn.hook.op \in {"prompt", "tool", "stop"}
  BY DEF WriteClaim, Informational
<1> DEFINE h == txn.hook
           ep == txn.epoch
           sc == txn.scan
           t == txn.turn
           c == Claim(h, ep, sc, t)
           v == Virtual(ep)
<1>2. cursor' = c.cursor /\ sent' = sent \o c.sent
  BY DEF WriteClaim
<1>3. /\ Types /\ ep \in Epoch /\ sc \in ScanType /\ t \in Nat
      /\ sent \in Seq(Entry) /\ h.op \in {"prompt", "tool", "stop"}
  BY <1>1 DEF LedgerInv, CursorInv, Types, Txn, Entry
<1>4. CursorInv' /\ cursor' \in Cursor \union {NoCursor}
  BY <1>1, WriteClaimStep, TypesStay DEF LedgerInv, Kept, CursorInv, Types
<1>5. \A f \in Feeds : v.pos[f] <= sc.len[f] /\ sc.len[f] <= Len(feed[f])
  <2>1. /\ \A f \in Feeds : sc.len[f] <= Len(feed[f]) /\ sc.len[f] \in Nat
        /\ cursor # NoCursor => \A f \in Feeds : cursor.pos[f] <= sc.len[f]
    BY <1>1, <1>3 DEF LedgerInv, CursorInv, ScanCurrent, ScanType
  <2>2. \/ cursor # NoCursor /\ v.pos = cursor.pos
        \/ \A f \in Feeds : v.pos[f] = 0
    BY <1>3, VirtualProperties DEF LedgerInv
  <2> QED BY <2>1, <2>2
<1>6. /\ c.cursor.v = 3
      /\ \/ c.sent = <<>> /\ SameMarks(v, c.cursor)
         \/ \E e : c.sent = <<e>> /\ Claimed(v, c.cursor, e, h, ep, t)
  BY <1>1, <1>3, ClaimMarks
<1>7. /\ v \in Cursor /\ History(sent)
      /\ \A i \in DOMAIN sent : Booked(sent[i], v)
  BY <1>3, VirtualBooks
<1>8. c.cursor \in Cursor
  BY <1>3, <1>5, ClaimProperties DEF LedgerInv
<1> HIDE DEF h, ep, sc, t, c, v
<1>9. PICK d \in Cursor : cursor' = d /\ d = c.cursor
  BY <1>2, <1>8
<1>10. d.v # 1
  BY <1>6, <1>9
<1>11. CASE c.sent = <<>> /\ SameMarks(v, d)
  <2>1. sent' = sent
    BY <1>2, <1>3, <1>11
  <2>2. \A i \in DOMAIN sent : Booked(sent[i], d)
    BY <1>7, <1>11, BookedSame
  <2> QED BY <1>1, <1>4, <1>7, <1>9, <1>10, <2>1, <2>2, LedgerWritten
<1>12. CASE \E e : c.sent = <<e>> /\ Claimed(v, d, e, h, ep, t)
  <2>1. PICK e : c.sent = <<e>> /\ Claimed(v, d, e, h, ep, t)
    BY <1>12
  <2>2. e \in Entry
    BY <2>1 DEF Claimed, Entry
  <2> DEFINE S == Append(sent, e)
  <2>3. sent' = S
    BY <1>2, <1>3, <2>1, <2>2
  <2>4. \A i \in DOMAIN sent : Pair(sent[i], e) /\ Booked(sent[i], d)
    <3> SUFFICES ASSUME NEW i \in DOMAIN sent
                 PROVE  Pair(sent[i], e) /\ Booked(sent[i], d)
      OBVIOUS
    <3>1. sent[i] \in Entry /\ Booked(sent[i], v)
      BY <1>3, <1>7
    <3> QED BY <1>3, <1>7, <2>1, <3>1, ClaimedAfter
  <2>5. Booked(e, d)
    BY <1>3, <1>7, <2>1, ClaimedBooked
  <2>6. History(S)
    BY <1>3, <1>7, <2>2, <2>4, HistoryAppend
  <2>7. \A i \in DOMAIN S : Booked(S[i], d)
    <3>1. \A i \in DOMAIN S : S[i] = e \/ (i \in DOMAIN sent /\ S[i] = sent[i])
      BY <1>3, <2>2
    <3> HIDE DEF S
    <3> QED BY <2>4, <2>5, <3>1
  <2> HIDE DEF S
  <2> QED BY <1>1, <1>4, <1>9, <1>10, <2>3, <2>6, <2>7, LedgerWritten
<1> QED BY <1>6, <1>9, <1>11, <1>12

LEMMA WriteReadLedger ==
  ASSUME LedgerInv, WriteRead
  PROVE  LedgerInv'
<1>1. /\ UNCHANGED <<scene, turn>> /\ txn' = NoTxn /\ txn # NoTxn
      /\ txn.hook.op \notin {"prompt", "tool", "stop"}
  BY DEF WriteRead, Informational
<1> DEFINE h == txn.hook
           ep == txn.epoch
           sc == txn.scan
           t == txn.turn
           v == Virtual(ep)
           R == ReadResult(h, ep, sc, t)
<1>2. /\ Types /\ ep \in Epoch /\ t \in Nat /\ h \in HookCalls
      /\ sent \in Seq(Entry)
  BY <1>1 DEF LedgerInv, CursorInv, Types, Txn, Entry
<1>3. CursorInv' /\ sent' \in Seq(Entry)
  BY <1>1, WriteReadStep, TypesStay DEF LedgerInv, Kept, CursorInv, Types, Entry
<1>4. /\ v \in Cursor /\ History(sent)
      /\ \A i \in DOMAIN sent : Booked(sent[i], v)
  BY <1>2, VirtualBooks
<1>5. v.v = 3
  BY <1>2, VirtualMarks
<1>6. Forgotten = sent
  <2>1. ~(cursor # NoCursor /\ cursor.v = 1)
    BY DEF LedgerInv, Ledger
  <2>2. Forgotten = [i \in DOMAIN sent |-> sent[i]]
    BY <2>1 DEF Forgotten
  <2> QED BY <1>2, <2>2
<1>7. IF R = {} THEN UNCHANGED <<cursor, sent>>
      ELSE \E c \in R : /\ cursor' = c
                        /\ sent' = sent \o
                             IF c.rev = v.rev THEN <<>>
                             ELSE <<[op |-> "read", rev |-> c.rev, count |-> 0,
                                     turn |-> c.informed, stage |-> "emitted"]>>
  BY <1>6 DEF WriteRead
<1>8. \A c \in R : ReadMarked(v, c, t)
  BY <1>1, <1>2, <1>4, ReadMarks
<1>9. \A c \in R : c \in Cursor
  <2>1. /\ Types /\ Nonces /\ sc \in ScanType /\ Good(v)
    BY <1>1, <1>2, VirtualProperties DEF LedgerInv, CursorInv, Types, Txn
  <2>2. \A f \in Feeds : v.pos[f] <= sc.len[f] /\ sc.len[f] <= Len(feed[f])
    <3>1. /\ \A f \in Feeds : sc.len[f] <= Len(feed[f]) /\ sc.len[f] \in Nat
          /\ cursor # NoCursor => \A f \in Feeds : cursor.pos[f] <= sc.len[f]
      BY <1>1, <2>1 DEF LedgerInv, CursorInv, ScanCurrent, ScanType
    <3>2. \/ cursor # NoCursor /\ v.pos = cursor.pos
          \/ \A f \in Feeds : v.pos[f] = 0
      BY <1>2, VirtualProperties DEF LedgerInv
    <3> QED BY <3>1, <3>2
  <2> QED BY <1>1, <1>2, <1>4, <2>1, <2>2, ReadResultWrites DEF ReadWrites
<1> HIDE DEF h, ep, sc, t, v, R
<1>10. CASE R = {}
  <2>1. UNCHANGED <<cursor, sent>>
    BY <1>7, <1>10
  <2>2. Ledger'
    BY <1>1, <2>1 DEF LedgerInv, Ledger, Claude, History, Pair, Booked
  <2> QED BY <1>1, <1>3, <2>2 DEF LedgerInv
<1>11. CASE R # {}
  <2>1. PICK d \in R : /\ cursor' = d
                       /\ sent' = sent \o
                             IF d.rev = v.rev THEN <<>>
                             ELSE <<[op |-> "read", rev |-> d.rev, count |-> 0,
                                     turn |-> d.informed, stage |-> "emitted"]>>
    BY <1>7, <1>11
  <2>2. d \in Cursor /\ ReadMarked(v, d, t) /\ d.v # 1
    BY <1>5, <1>8, <1>9 DEF ReadMarked
  <2>3. CASE SameMarks(v, d)
    <3>1. sent' = sent
      BY <1>2, <2>1, <2>3 DEF SameMarks
    <3>2. \A i \in DOMAIN sent : Booked(sent[i], d)
      BY <1>4, <2>3, BookedSame
    <3> QED BY <1>1, <1>3, <1>4, <2>1, <2>2, <3>1, <3>2, LedgerWritten
  <2>4. CASE d.rev = v.rev + 1 /\ Unmarked(d)
    <3> DEFINE e == [op |-> "read", rev |-> d.rev, count |-> 0,
                     turn |-> d.informed, stage |-> "emitted"]
               S == Append(sent, e)
    <3>1. v.rev \in Nat /\ d.rev \in Nat /\ v.rev < d.rev /\ d.informed \in Nat
      BY <1>4, <2>2, <2>4 DEF Cursor
    <3>2. e \in Entry
      BY <3>1 DEF Entry, Read
    <3>3. sent' = S
      BY <1>2, <2>1, <3>1, <3>2
    <3>4. \A i \in DOMAIN sent : Pair(sent[i], e) /\ Booked(sent[i], d)
      <4> SUFFICES ASSUME NEW i \in DOMAIN sent
                   PROVE  Pair(sent[i], e) /\ Booked(sent[i], d)
        OBVIOUS
      <4>1. Booked(sent[i], d) /\ sent[i].rev < d.rev
        BY <1>2, <1>4, <2>2, <3>1, BookedNewer
      <4>2. sent[i].rev # e.rev
        BY <1>2, <3>1, <4>1, EntryTypes
      <4> QED BY <4>1, <4>2 DEF Pair, Told, Spared
    <3>5. Booked(e, d)
      <4>1. e.op = "read" /\ e.rev = d.rev /\ e.count = 0 /\ e.turn = d.informed
            /\ e.stage = "emitted" /\ d.high = 0
        BY <2>4 DEF Unmarked
      <4>2. Marked(e, d)
        BY <3>1, <4>1 DEF Marked, Standing, Revocable
      <4>3. Informed(e, d) /\ Staged(e)
        BY <4>1 DEF Informed, Staged, Informational, Live
      <4> QED BY <4>2, <4>3 DEF Booked
    <3> HIDE DEF e
    <3>6. History(S)
      BY <1>2, <1>4, <3>2, <3>4, HistoryAppend
    <3>7. \A i \in DOMAIN S : Booked(S[i], d)
      <4>1. \A i \in DOMAIN S : S[i] = e \/ (i \in DOMAIN sent /\ S[i] = sent[i])
        BY <1>2, <3>2
      <4> HIDE DEF S
      <4> QED BY <3>4, <3>5, <4>1
    <3> HIDE DEF S
    <3> QED BY <1>1, <1>3, <2>1, <2>2, <3>3, <3>6, <3>7, LedgerWritten
  <2> QED BY <2>2, <2>3, <2>4 DEF ReadMarked
<1> QED BY <1>10, <1>11

LEMMA InheritLedger ==
  ASSUME LedgerInv, Inherit
  PROVE  LedgerInv'
<1>1. /\ UNCHANGED <<scene, turn, txn>> /\ txn = NoTxn /\ cursor = NoCursor
      /\ sent = <<>> /\ epoch # NoEpoch
  BY DEF Inherit, LedgerInv, Ledger
<1> DEFINE c == FirstCursor(epoch)
           count == Cardinality(Unread(c, Scan))
           ct == TurnOf(c, turn)
<1>2. PICK op \in {"none", "tool", "stop"} :
        /\ op # "none" => count > 0
        /\ cursor' = [c EXCEPT !.v = scene.version,
                         !.stop = IF op = "stop" THEN c.rev ELSE 0,
                         !.high = IF op = "none" THEN 0 ELSE count,
                         !.last = IF op = "none" \/ scene.version = 1 THEN 0 ELSE ct]
        /\ sent' = IF op = "none" THEN sent ELSE
              Append(sent, [op |-> op, ws |-> epoch.ws, from |-> epoch.from,
                            rev |-> c.rev, count |-> count,
                            turn |-> IF scene.version = 1 THEN 0 ELSE ct,
                            stage |-> "emitted", before |-> <<0, 0>>,
                            after |-> <<count, ct>>])
  BY DEF Inherit
<1>3. CursorInv' /\ sent' \in Seq(Entry)
  BY <1>1, InheritStep, TypesStay DEF LedgerInv, Kept, CursorInv, Types, Entry
<1>4. /\ Types /\ epoch \in Epoch /\ turn \in Nat /\ Scan \in ScanType
      /\ scene.version \in 1 .. 3 /\ scene.version # 1
  BY <1>1, SceneFacts, ScanProperties DEF LedgerInv, CursorInv, Types
<1>5. c = Virtual(epoch)
  BY <1>1 DEF Virtual, SameEpoch
<1>6. c.informed = 0
  BY DEF FirstCursor
<1> HIDE DEF c
<1>7. c \in Cursor
  BY <1>4, <1>5, VirtualProperties DEF LedgerInv
<1>8. count \in Nat /\ ct \in Nat /\ (~Claude => ct = turn)
  BY <1>4, <1>7, UnreadFinite, TurnOfType DEF TurnOf
<1> HIDE DEF count, ct
<1> DEFINE s == IF op = "stop" THEN c.rev ELSE 0
           g == IF op = "none" THEN 0 ELSE count
           l == IF op = "none" THEN 0 ELSE ct
           d == [c EXCEPT !.v = scene.version, !.stop = s, !.high = g, !.last = l]
           e == [op |-> op, ws |-> epoch.ws, from |-> epoch.from,
                 rev |-> c.rev, count |-> count, turn |-> ct,
                 stage |-> "emitted", before |-> <<0, 0>>, after |-> <<count, ct>>]
<1>9. cursor' = d /\ sent' = IF op = "none" THEN <<>> ELSE Append(<<>>, e)
  BY <1>1, <1>2, <1>4
<1>10. s \in Nat /\ g \in Nat /\ l \in Nat
  BY <1>7, <1>8 DEF Cursor
<1>11. op # "none" => e \in Entry
  BY <1>4, <1>7, <1>8 DEF Entry, Delivery, Cursor, Epoch
<1>12. /\ e.op = op /\ e.rev = c.rev /\ e.count = count /\ e.turn = ct
       /\ e.stage = "emitted" /\ e.before[2] = 0
  OBVIOUS
<1> HIDE DEF e
<1>13. s = (IF op = "stop" THEN c.rev ELSE 0) /\ (op # "none" => g = count /\ l = ct)
       /\ (l = 0 \/ l = ct)
  OBVIOUS
<1> HIDE DEF s, g, l
<1>14. /\ d \in Cursor /\ d.v = scene.version /\ d.rev = c.rev /\ d.stop = s
       /\ d.high = g /\ d.last = l /\ d.informed = c.informed
  BY <1>4, <1>7, <1>10 DEF Cursor
<1> HIDE DEF d
<1>15. CASE op = "none"
  <2>1. sent' = <<>> /\ History(<<>>) /\ \A i \in DOMAIN <<>> : Booked(<<>>[i], d)
    BY <1>9, <1>15 DEF History
  <2> QED BY <1>1, <1>3, <1>4, <1>9, <1>14, <2>1, LedgerWritten
<1>16. CASE op # "none"
  <2> DEFINE S == Append(<<>>, e)
  <2>1. \A i \in DOMAIN S : i = 1 /\ S[i] = e
    BY <1>11, <1>16
  <2> HIDE DEF S
  <2>2. History(S)
    BY <2>1 DEF History
  <2>3. Booked(e, d)
    <3>1. op \in {"tool", "stop"} /\ d.rev \in Nat /\ d.high = count /\ d.last = ct
      BY <1>13, <1>14, <1>16 DEF Cursor
    <3>2. Marked(e, d)
      BY <1>8, <1>12, <1>13, <1>14, <3>1 DEF Marked, Standing, Revocable
    <3>3. Informed(e, d) /\ Staged(e)
      BY <1>4, <1>8, <1>12, <3>1 DEF Informed, Staged, Live
    <3> QED BY <3>2, <3>3 DEF Booked
  <2>4. sent' = S
    BY <1>9, <1>16 DEF S
  <2>5. \A i \in DOMAIN S : Booked(S[i], d)
    BY <2>1, <2>3
  <2> QED BY <1>1, <1>3, <1>4, <1>9, <1>14, <2>2, <2>4, <2>5, LedgerWritten
<1> QED BY <1>15, <1>16

LEMMA SettledStage ==
  ASSUME NEW d \in Delivery, d.op = "stop" \/ d.stage = "claimed",
         NEW stage \in {"emitted", "failed", "void"},
         \/ d.stage = "claimed" /\ stage = "emitted"
         \/ d.stage = "claimed" /\ stage = "failed" /\ d.op = "stop"
         \/ d.stage = "failed" /\ stage = "void"
  PROVE  LET e == [d EXCEPT !.stage = stage] IN
         Settled(d, e) /\ Staged(e) /\ e.stage = stage /\ e \in Delivery
<1> DEFINE e == [d EXCEPT !.stage = stage]
<1>1. /\ e.op = d.op /\ e.rev = d.rev /\ e.count = d.count /\ e.turn = d.turn
      /\ e.before = d.before /\ e.after = d.after /\ e.stage = stage /\ e \in Delivery
  BY DEF Delivery
<1> HIDE DEF e
<1>2. Settled(d, e)
  BY <1>1 DEF Settled, Live, Standing, Revocable
<1>3. Staged(e)
  BY <1>1 DEF Staged, Live
<1> QED BY <1>1, <1>2, <1>3 DEF e

(* A delivery is emitted, or a Stop's fails. *)
LEMMA SettleLedger ==
  ASSUME LedgerInv, NEW i \in DOMAIN sent, Emit(i) \/ Fail(i)
  PROVE  LedgerInv'
<1>1. UNCHANGED <<scene, turn, cursor, txn>>
  BY DEF Emit, Fail
<1>2. CursorInv'
  BY SettleStep DEF LedgerInv, Kept
<1>3. sent \in Seq(Entry) /\ sent[i] \in Delivery
  <2>1. sent[i].stage = "claimed"
    BY DEF Emit, Fail
  <2>2. sent \in Seq(Entry) /\ sent[i] \in Entry
    BY DEF LedgerInv, CursorInv, Types, Entry
  <2> QED BY <2>1, <2>2 DEF Entry, Read
<1>4. PICK stage \in {"emitted", "failed"} :
        /\ sent[i].stage = "claimed" /\ (stage = "failed" => sent[i].op = "stop")
        /\ sent' = [sent EXCEPT ![i].stage = stage]
  BY DEF Emit, Fail, Settle
<1> DEFINE e == [sent[i] EXCEPT !.stage = stage]
<1>5. Settled(sent[i], e) /\ Staged(e)
  BY <1>3, <1>4, SettledStage
<1>6. sent' = [sent EXCEPT ![i] = e]
  BY <1>3, <1>4
<1> HIDE DEF e
<1>7. cursor # NoCursor
  BY DEF LedgerInv, Ledger
<1>8. History(sent) /\ \A k \in DOMAIN sent : Booked(sent[k], cursor)
  BY <1>7 DEF LedgerInv, Ledger
<1> DEFINE S == [sent EXCEPT ![i] = e]
<1>9. History(S)
  BY <1>3, <1>5, <1>8, HistorySettles
<1>10. \A k \in DOMAIN S : Booked(S[k], cursor)
  <2>1. Booked(e, cursor)
    BY <1>5, <1>8, BookedSettles
  <2>2. \A k \in DOMAIN S : k \in DOMAIN sent /\ S[k] = IF k = i THEN e ELSE sent[k]
    OBVIOUS
  <2> QED BY <1>8, <2>1, <2>2
<1> HIDE DEF S
<1>11. sent' = S
  BY <1>6 DEF S
<1>12. PICK d \in Cursor : cursor = d
  BY <1>7 DEF LedgerInv, CursorInv, Types
<1>13. d.v # 1 /\ cursor' = d
  BY <1>1, <1>7, <1>12 DEF LedgerInv, Ledger
<1>14. \A k \in DOMAIN S : Booked(S[k], d)
  BY <1>10, <1>12
<1> QED BY <1>1, <1>2, <1>9, <1>11, <1>13, <1>14, LedgerWritten

(* Taking the Stop r back leaves the marks of everything else. *)
LEMMA RolledBack ==
  ASSUME NEW c \in Cursor, NEW d \in Cursor, NEW s \in Entry, NEW r \in Delivery,
         r.op = "stop", r.stage = "failed", c.rev = r.rev,
         Booked(s, c), Booked(r, c), Pair(s, r) \/ Pair(r, s),
         d.rev = c.rev, d.informed = c.informed,
         \/ d.high = c.high
         \/ c.high = r.after[1] /\ d.high = r.before[1]
  PROVE  Booked(s, d)
<1>1. Standing(r) /\ Revocable(r)
  BY DEF Standing, Revocable
<1>2. /\ s.rev \in Nat /\ s.count \in Nat /\ r.after[1] \in Nat /\ c.high \in Nat
      /\ s.op \in {"prompt", "tool", "stop", "read"}
  BY EntryTypes DEF Delivery, Cursor
<1>3. Staged(s) /\ Marked(s, c) /\ (~Claude => Informed(s, c))
  BY DEF Booked
<1>4. ASSUME s.rev = d.rev, Revocable(s) \/ Standing(s)
      PROVE  FALSE
  <2>1. s.op = "stop" /\ Standing(s)
    BY <1>4 DEF Revocable, Standing
  <2> QED BY <1>1, <1>4, <2>1 DEF Pair, Told
<1>5. ASSUME s.rev = d.rev, Live(s), d.high # c.high
      PROVE  s.count <= r.before[1]
  <2>1. s.count <= c.high /\ c.high = r.after[1]
    BY <1>3, <1>5 DEF Marked
  <2>2. ~Pair(r, s)
    <3> SUFFICES ASSUME Pair(r, s) PROVE FALSE
      OBVIOUS
    <3>1. r.after[1] < s.count
      BY <1>1, <1>5 DEF Pair, Told
    <3> QED BY <1>2, <2>1, <3>1
  <2>3. Told(s, r)
    BY <2>2 DEF Pair
  <2> QED BY <1>1, <1>5, <2>2, <2>3 DEF Told
<1>6. Marked(s, d)
  <2>1. s.rev <= d.rev
    BY <1>3 DEF Marked
  <2>2. s.rev = d.rev /\ Live(s) => s.count <= d.high
    BY <1>3, <1>5 DEF Marked
  <2> QED BY <1>4, <2>1, <2>2 DEF Marked
<1>7. ~Claude => Informed(s, d)
  BY <1>3 DEF Informed
<1> QED BY <1>3, <1>6, <1>7 DEF Booked

LEMMA RollbackLedger ==
  ASSUME LedgerInv, NEW i \in DOMAIN sent, Rollback(i)
  PROVE  LedgerInv'
<1> DEFINE r == sent[i]
           e == [r EXCEPT !.stage = "void"]
           S == [sent EXCEPT ![i] = e]
<1>1. /\ UNCHANGED <<scene, turn, txn>> /\ r.stage = "failed"
      /\ sent' = [sent EXCEPT ![i].stage = "void"]
  BY DEF Rollback, Settle
<1>2. CursorInv'
  BY RollbackStep DEF LedgerInv, Kept
<1>3. cursor # NoCursor
  BY DEF LedgerInv, Ledger
<1>4. /\ Types /\ sent \in Seq(Entry) /\ cursor \in Cursor
      /\ cursor.v # 1
      /\ History(sent) /\ \A k \in DOMAIN sent : Booked(sent[k], cursor)
  BY <1>3 DEF LedgerInv, CursorInv, Types, Entry, Ledger
<1>5. r \in Delivery /\ r.op = "stop"
  <2>1. r \in Entry /\ Staged(r)
    BY <1>4 DEF Booked
  <2> QED BY <1>1, <2>1 DEF Entry, Read, Staged, Live
<1>6. Settled(r, e) /\ Staged(e)
  <2>1. "void" \in {"emitted", "failed", "void"}
    OBVIOUS
  <2> QED BY <1>1, <1>5, <2>1, SettledStage
<1>7. sent' = S
  BY <1>1
<1>8. History(S)
  BY <1>4, <1>6, HistorySettles
<1>9. Booked(r, cursor) /\ Booked(e, cursor)
  BY <1>4, <1>6, BookedSettles
<1>10. \A k \in DOMAIN S : k \in DOMAIN sent /\ S[k] = IF k = i THEN e ELSE sent[k]
  OBVIOUS
<1>11. e.op = "stop" /\ e.stage = "void" /\ e.rev = r.rev /\ e.before = r.before
  BY <1>5 DEF Delivery
<1> HIDE DEF e, S
<1>12. CASE cursor' = cursor
  <2>1. PICK d \in Cursor : cursor = d
    BY <1>4
  <2>2. \A k \in DOMAIN S : Booked(S[k], d)
    BY <1>4, <1>9, <1>10, <2>1
  <2> QED BY <1>1, <1>2, <1>4, <1>7, <1>8, <1>12, <2>1, <2>2, LedgerWritten
<1>13. ASSUME NEW d \in Cursor, cursor' = d, cursor.rev = r.rev,
              d.v = cursor.v, d.rev = cursor.rev, d.informed = cursor.informed,
              \/ d.high = cursor.high
              \/ cursor.high = r.after[1] /\ d.high = r.before[1]
       PROVE  LedgerInv'
  <2>2. ASSUME NEW k \in DOMAIN sent, k # i PROVE Booked(sent[k], d)
    <3>1. Pair(sent[k], r) \/ Pair(r, sent[k])
      <4>1. k \in Nat /\ i \in Nat /\ k >= 1 /\ i >= 1
        BY <1>4
      <4>2. CASE k < i
        BY <1>4, <4>1, <4>2 DEF History
      <4>3. CASE i < k
        BY <1>4, <4>1, <4>3 DEF History
      <4> QED BY <2>2, <4>1, <4>2, <4>3
    <3>2. sent[k] \in Entry /\ Booked(sent[k], cursor)
      BY <1>4
    <3> HIDE DEF r
    <3> QED BY <1>1, <1>4, <1>5, <1>9, <1>13, <3>1, <3>2, RolledBack
  <2>3. Booked(e, d)
    <3>1. Marked(e, d)
      BY <1>9, <1>11, <1>13 DEF Booked, Marked, Standing, Live, Revocable
    <3>2. ~Claude => Informed(e, d)
      BY <1>9, <1>11 DEF Booked, Informed, Informational
    <3> QED BY <1>6, <3>1, <3>2 DEF Booked
  <2>4. \A k \in DOMAIN S : Booked(S[k], d)
    BY <1>10, <2>2, <2>3
  <2> QED BY <1>1, <1>2, <1>4, <1>7, <1>8, <1>13, <2>4, LedgerWritten
<1>14. CASE cursor' # cursor
  <2>1. /\ cursor.rev = r.rev
        /\ cursor' = IF <<cursor.high, cursor.last>> = r.after
                     THEN [cursor EXCEPT !.stop = 0, !.high = r.before[1],
                                         !.last = r.before[2]]
                     ELSE [cursor EXCEPT !.stop = 0]
    BY <1>14 DEF Rollback
  <2>2. r.before[1] \in Nat /\ r.before[2] \in Nat /\ 0 \in Nat
    BY <1>5 DEF Delivery
  <2>3. CASE <<cursor.high, cursor.last>> = r.after
    <3> DEFINE d == [cursor EXCEPT !.stop = 0, !.high = r.before[1], !.last = r.before[2]]
    <3>1. cursor' = d /\ d \in Cursor
      BY <1>4, <2>1, <2>2, <2>3, BudgetType
    <3>2. /\ d.v = cursor.v /\ d.rev = cursor.rev /\ d.informed = cursor.informed
          /\ d.high = r.before[1] /\ d.last = r.before[2]
      BY <1>4 DEF Cursor
    <3>3. cursor.high = r.after[1]
      BY <2>3
    <3> HIDE DEF d
    <3> QED BY <1>13, <2>1, <3>1, <3>2, <3>3
  <2>4. CASE <<cursor.high, cursor.last>> # r.after
    <3> DEFINE d == [cursor EXCEPT !.stop = 0]
    <3>1. cursor' = d /\ d \in Cursor
      BY <1>4, <2>1, <2>2, <2>4, BudgetType
    <3>2. /\ d.v = cursor.v /\ d.rev = cursor.rev /\ d.informed = cursor.informed
          /\ d.high = cursor.high /\ d.last = cursor.last
      BY <1>4 DEF Cursor
    <3> HIDE DEF d
    <3> QED BY <1>13, <2>1, <3>1, <3>2
  <2> QED BY <2>3, <2>4
<1> QED BY <1>12, <1>14

(* The marks and the deliveries stay. *)
LEMMA LedgerAside ==
  ASSUME LedgerInv, CursorInv', UNCHANGED <<scene, cursor, sent>>
  PROVE  LedgerInv'
BY DEF LedgerInv, Ledger, Claude, History, Pair, Booked

LEMMA ExpireLedger ==
  ASSUME LedgerInv, Expire
  PROVE  LedgerInv'
<1>1. UNCHANGED <<scene, turn, txn, sent>> /\ cursor # NoCursor
  BY DEF Expire
<1>2. PICK p \in cursor.pending :
        cursor' = [cursor EXCEPT !.pending = (@ \ {p}) \union {[p EXCEPT !.live = FALSE]}]
  BY DEF Expire
<1>3. CursorInv'
  BY ExpireStep DEF LedgerInv, Kept
<1>4. /\ Types /\ cursor \in Cursor /\ cursor.v # 1
      /\ History(sent) /\ \A k \in DOMAIN sent : Booked(sent[k], cursor)
  BY <1>1 DEF LedgerInv, CursorInv, Types, Ledger
<1>5. cursor' \in Cursor /\ SameMarks(cursor, cursor') /\ cursor'.v = cursor.v
  <2> DEFINE ps == (cursor.pending \ {p}) \union {[p EXCEPT !.live = FALSE]}
             d == [cursor EXCEPT !.pending = ps]
  <2>1. ps \in SUBSET Pending
    BY <1>4 DEF Cursor, Pending
  <2>2. cursor' = d
    BY <1>2, <1>4 DEF Cursor
  <2> HIDE DEF ps
  <2>3. d \in Cursor /\ SameMarks(cursor, d) /\ d.v = cursor.v
    BY <1>4, <2>1 DEF Cursor, SameMarks
  <2> QED BY <2>2, <2>3
<1>6. PICK d \in Cursor : cursor' = d
  BY <1>5
<1>7. \A k \in DOMAIN sent : Booked(sent[k], d)
  BY <1>4, <1>5, <1>6, BookedSame
<1>8. d.v # 1
  BY <1>4, <1>5, <1>6
<1>9. sent' = sent
  BY <1>1
<1> QED BY <1>1, <1>3, <1>4, <1>6, <1>7, <1>8, <1>9, LedgerWritten

LEMMA LedgerInvStep ==
  ASSUME LedgerInv, [Next]_vars
  PROVE  LedgerInv'
<1>1. CursorInv'
  BY NextKept DEF LedgerInv, Kept
<1>2. CASE UNCHANGED <<scene, cursor, sent>>
  BY <1>1, <1>2, LedgerAside
<1>3. CASE \/ \E f \in scene.feeds : Publish(f) \/ Change(f)
           \/ Tick
           \/ \E w \in scene.workstreams : Move(w)
           \/ \E t \in Tools : ReadCommand(t)
           \/ \E h \in HookCalls : Open(h)
           \/ Check
           \/ UNCHANGED vars
  BY <1>2, <1>3 DEF Publish, Change, Tick, Move, ReadCommand, Open, Check, vars
<1>4. CASE Expire \/ WriteClaim \/ WriteRead \/ Inherit
  BY <1>4, ExpireLedger, WriteClaimLedger, WriteReadLedger, InheritLedger
<1>5. ASSUME NEW i \in DOMAIN sent, Emit(i) \/ Fail(i) \/ Rollback(i) PROVE LedgerInv'
  BY <1>5, SettleLedger, RollbackLedger
<1> QED BY <1>3, <1>4, <1>5 DEF Next

LEMMA InitLedgerInv == Init /\ scene.version # 1 => LedgerInv
BY InitCursorInv DEF Init, LedgerInv, Ledger

-----------------------------------------------------------------------------
(* Concurrent prompt and tool hooks announce a new count only once, and one
   Stop blocks a revision: claims that are rolled back in between, moves and
   reads do not change that. *)
THEOREM TellsOnce == Spec /\ scene.version # 1 => []ToldOnce
<1>1. LedgerInv /\ [Next]_vars => LedgerInv'
  BY LedgerInvStep
<1> QED BY <1>1, InitLedgerInv, LedgerInvTellsOnce, PTL DEF Spec

-----------------------------------------------------------------------------
(* Counts are lower bounds *)

(* The feeds as they are, every file of theirs readable. *)
FullScan == [len |-> [f \in Feeds |-> Len(feed[f])],
             av |-> [f \in Feeds |-> "ok"]]

Waiting(c) == Unread(c, FullScan)

CountInv == LedgerInv /\ CountsHold

LEMMA FullScanType ==
  ASSUME Types
  PROVE  /\ FullScan \in ScanType
         /\ \A f \in Feeds : /\ FullScan.len[f] = Len(feed[f]) /\ Len(feed[f]) \in Nat
                             /\ FullScan.av[f] = "ok"
BY DEF Types, FullScan, ScanType

(* What a scan counts is there. *)
LEMMA ScanFindsWaiting ==
  ASSUME Types, NEW c \in Cursor, NEW sc \in ScanType,
         \A f \in Feeds : sc.len[f] <= Len(feed[f])
  PROVE  /\ Unread(c, sc) \subseteq Waiting(c)
         /\ Cardinality(Unread(c, sc)) <= Cardinality(Waiting(c))
<1>1. ASSUME NEW f \in Feeds
      PROVE  UnreadIn(c, sc, f) \subseteq UnreadIn(c, FullScan, f)
  <2>1. /\ FullScan.len[f] = Len(feed[f]) /\ Len(feed[f]) \in Nat /\ FullScan.av[f] = "ok"
        /\ sc.len[f] \in Nat /\ sc.len[f] <= Len(feed[f]) /\ c.pos[f] \in Nat
    BY FullScanType DEF ScanType, Cursor
  <2>2. c.pos[f] + 1 .. sc.len[f] \subseteq c.pos[f] + 1 .. FullScan.len[f]
    BY <2>1
  <2> QED BY <2>1, <2>2 DEF UnreadIn
<1>2. Unread(c, sc) \subseteq Waiting(c)
  BY <1>1 DEF Unread, Waiting
<1>3. IsFiniteSet(Waiting(c))
  BY FullScanType, UnreadFinite DEF Waiting
<1> QED BY <1>2, <1>3, FS_Subset

(* collapseReadCursor passes over nothing that waits. *)
LEMMA CollapseKeepsWaiting ==
  ASSUME Types, NEW c, NEW sc \in ScanType, c.pos \in [Feeds -> Nat],
         {"ws", "from", "pos", "cov"} \subseteq DOMAIN c,
         \A f \in Feeds : c.pos[f] <= sc.len[f] /\ sc.len[f] <= Len(feed[f])
  PROVE  Waiting(c) \subseteq Waiting(Collapse(c, sc))
<1> DEFINE pos == [f \in Feeds |-> Prefix(c, sc, f)]
           cov == {b \in c.cov : b[2] > pos[b[1]]}
           d == Collapse(c, sc)
<1>1. d = [c EXCEPT !.pos = pos, !.cov = cov]
  BY DEF Collapse
<1> SUFFICES ASSUME NEW f \in Feeds, NEW k \in UnreadIn(c, FullScan, f)
             PROVE  k \in UnreadIn(d, FullScan, f)
  BY DEF Waiting, Unread
<1>2. pos[f] = Prefix(c, sc, f) /\ cov \subseteq c.cov
  OBVIOUS
<1> HIDE DEF pos, cov, d
<1>3. d.pos = pos /\ d.cov = cov /\ d.ws = c.ws /\ d.from = c.from
  BY <1>1
<1>4. /\ k = <<f, k[2]>> /\ k[2] \in c.pos[f] + 1 .. Len(feed[f])
      /\ Eligible(c, k) /\ ~Acknowledged(c.cov, k)
  BY FullScanType DEF UnreadIn
<1>5. /\ c.pos[f] \in Nat /\ sc.len[f] \in Nat /\ Len(feed[f]) \in Nat
      /\ c.pos[f] <= sc.len[f] /\ sc.len[f] <= Len(feed[f])
  BY FullScanType DEF ScanType
<1>6. pos[f] \in c.pos[f] .. sc.len[f] /\ \A j \in UnreadIn(c, sc, f) : pos[f] < j[2]
  BY <1>2, <1>5, PrefixProperties
<1>7. pos[f] < k[2]
  <2>1. CASE sc.av[f] # "ok"
    <3>1. pos[f] = c.pos[f]
      BY <1>2, <2>1 DEF Prefix
    <3> QED BY <1>4, <1>5, <3>1
  <2>2. CASE sc.av[f] = "ok" /\ k[2] <= sc.len[f]
    <3>1. k[2] \in c.pos[f] + 1 .. sc.len[f]
      BY <1>4, <1>5, <2>2
    <3>2. k \in UnreadIn(c, sc, f)
      BY <1>4, <2>2, <3>1 DEF UnreadIn
    <3> QED BY <1>6, <3>2
  <2>3. CASE ~(k[2] <= sc.len[f])
    BY <1>4, <1>5, <1>6, <2>3
  <2> QED BY <2>1, <2>2, <2>3
<1>8. Eligible(d, k) /\ ~Acknowledged(d.cov, k)
  BY <1>2, <1>3, <1>4 DEF Eligible, Acknowledged
<1>9. k[2] \in d.pos[f] + 1 .. Len(feed[f])
  BY <1>3, <1>4, <1>5, <1>6, <1>7
<1> QED BY <1>4, <1>8, <1>9, FullScanType DEF UnreadIn

LEMMA SameReadWaits ==
  ASSUME NEW c, NEW d, SameRead(c, d)
  PROVE  Waiting(d) = Waiting(c)
BY ReadStays DEF Waiting

(* A claim counts what waits, and leaves it waiting. *)
LEMMA ClaimCounts ==
  ASSUME LedgerInv, NEW ep \in Epoch, NEW sc \in ScanType, NEW t \in Nat, NEW h,
         \A f \in Feeds : Virtual(ep).pos[f] <= sc.len[f] /\ sc.len[f] <= Len(feed[f])
  PROVE  LET d == Claim(h, ep, sc, t).cursor
             s == Claim(h, ep, sc, t).sent
         IN /\ Waiting(Virtual(ep)) \subseteq Waiting(d)
            /\ \A i \in DOMAIN s : s[i].count <= Cardinality(Waiting(Virtual(ep)))
<1> DEFINE v == Virtual(ep)
           c0 == Establish(v, h)
           ct == TurnOf(c0, t)
           count == Cardinality(Unread(c0, sc))
           c1 == Attributed(c0, h, ep, count, ct)
           sameTurn == ct \in {c1.last, c1.informed}
           c2 == Retire(c1, h, sameTurn)
           due == ~Latched(h, c2) /\ Due(h, c2, count, sameTurn)
           c3 == IF Latched(h, c2) THEN c2 ELSE Collapse(c2, sc)
           high == IF count > c3.high THEN count ELSE c3.high
           c4 == IF due
                 THEN [c3 EXCEPT !.stop = IF h.op = "stop" THEN c3.rev ELSE @,
                                 !.high = high, !.last = ct]
                 ELSE IF ~Latched(h, c2) /\ count = 0 /\ ~Incomplete(c2, sc)
                 THEN [c3 EXCEPT !.outside = FALSE]
                 ELSE c3
           told == [op |-> h.op, ws |-> ep.ws, from |-> ep.from, rev |-> c4.rev,
                    count |-> count, turn |-> ct, stage |-> "claimed",
                    before |-> <<c1.high, c1.last>>, after |-> <<high, ct>>]
<1>1. /\ Claim(h, ep, sc, t).cursor = c4
      /\ Claim(h, ep, sc, t).sent = IF ~due THEN <<>> ELSE <<told>>
  BY DEF Claim
<1>2. /\ Types /\ CursorInv /\ v \in Cursor
      /\ SameEpoch(cursor, ep) => cursor.v # 1
  <2>1. Types /\ CursorInv /\ (SameEpoch(cursor, ep) => cursor.v # 1)
    BY DEF LedgerInv, CursorInv, Ledger, SameEpoch
  <2>2. v \in Cursor
    BY <2>1, VirtualProperties
  <2> QED BY <2>1, <2>2
<1>3. \A i \in DOMAIN Claim(h, ep, sc, t).sent : Claim(h, ep, sc, t).sent[i].count = count
  <2>1. told.count = count
    OBVIOUS
  <2>2. \A i \in DOMAIN <<told>> : <<told>>[i] = told
    OBVIOUS
  <2> HIDE DEF told, due
  <2> QED BY <1>1, <2>1, <2>2
<1> HIDE DEF v
<1>4. c0 \in Cursor /\ SameRead(v, c0)
  BY <1>2, EstablishProperties
<1> HIDE DEF c0
<1>5. count <= Cardinality(Waiting(v))
  BY <1>2, <1>4, ScanFindsWaiting, SameReadWaits
<1> HIDE DEF count
<1>6. c1 = c0
  BY <1>2 DEF Attributed
<1> HIDE DEF c1
<1>7. c2 \in Cursor /\ SameRead(c1, c2)
  BY <1>4, <1>6 DEF Retire, Cursor, SameRead
<1> HIDE DEF c2
<1>8. SameRead(v, c2) /\ Waiting(c2) = Waiting(v)
  <2>1. SameRead(v, c2)
    BY <1>4, <1>6, <1>7 DEF SameRead
  <2> QED BY <2>1, SameReadWaits
<1>9. \A f \in Feeds : c2.pos[f] <= sc.len[f] /\ sc.len[f] <= Len(feed[f])
  BY <1>8 DEF SameRead, v
<1> DEFINE Names == {"ws", "from", "pos", "cov", "rev", "stop", "high", "last", "outside"}
<1>10. Waiting(c2) \subseteq Waiting(c3) /\ Names \subseteq DOMAIN c3
  <2>1. Names \subseteq DOMAIN c2 /\ c2.pos \in [Feeds -> Nat]
    BY <1>7 DEF Cursor
  <2>2. CASE Latched(h, c2)
    BY <2>1, <2>2
  <2>3. CASE ~Latched(h, c2)
    <3>1. c3 = Collapse(c2, sc)
      BY <2>3
    <3>2. Waiting(c2) \subseteq Waiting(Collapse(c2, sc))
      BY <1>2, <1>9, <2>1, CollapseKeepsWaiting
    <3>3. DOMAIN Collapse(c2, sc) = DOMAIN c2
      BY DEF Collapse
    <3> QED BY <2>1, <3>1, <3>2, <3>3
  <2> QED BY <2>2, <2>3
<1> HIDE DEF c3
<1>11. SameRead(c3, c4)
  <2> DEFINE s == IF h.op = "stop" THEN c3.rev ELSE c3.stop
  <2>1. \/ c4 = [c3 EXCEPT !.stop = s, !.high = high, !.last = ct]
        \/ c4 = [c3 EXCEPT !.outside = FALSE]
        \/ c4 = c3
    BY <1>10
  <2> HIDE DEF c4, s, high, ct
  <2> QED BY <1>10, <2>1 DEF SameRead
<1>12. Waiting(c4) = Waiting(c3)
  BY <1>11, SameReadWaits
<1> HIDE DEF c4
<1> QED BY <1>1, <1>3, <1>5, <1>8, <1>10, <1>12 DEF v

(* A read hook that stays at the revision leaves everything waiting. *)
LEMMA ReadCounts ==
  ASSUME Types, NEW ep \in Epoch, NEW sc \in ScanType, NEW t \in Nat,
         NEW h \in HookCalls, h.op \notin {"prompt", "tool", "stop"},
         Virtual(ep) \in Cursor,
         \A f \in Feeds : Virtual(ep).pos[f] <= sc.len[f] /\ sc.len[f] <= Len(feed[f]),
         NEW d \in ReadResult(h, ep, sc, t)
  PROVE  d.rev # Virtual(ep).rev \/ Waiting(Virtual(ep)) \subseteq Waiting(d)
<1> DEFINE c == Virtual(ep)
<1>1. h.op \in {"reserve", "stage", "commit", "discard"}
  BY DEF HookCalls
<1>2. ASSUME NEW ps, d = [c EXCEPT !.pending = ps]
      PROVE  Waiting(c) \subseteq Waiting(d)
  <2> HIDE DEF c
  <2>1. SameRead(c, d)
    BY <1>2 DEF Cursor, SameRead, c
  <2> QED BY <2>1, SameReadWaits
<1>3. CASE h.op = "reserve"
  BY <1>2, <1>3 DEF ReadResult, Reserve, AddPending
<1>4. CASE h.op = "stage"
  BY <1>2, <1>4 DEF ReadResult, Stage
<1>5. CASE h.op = "discard"
  BY <1>2, <1>5 DEF ReadResult, Discard
<1>6. CASE h.op = "commit"
  <2>1. d \in Commit(c, h, sc, t)
    BY <1>6 DEF ReadResult
  <2>2. PICK p \in Matching(c, h.tool, t) :
          LET pv == Preview(c, p.text, sc)
              n == [pv.cursor EXCEPT !.pending = @ \ {p}]
              left == Unread(n, sc) # {} \/ Incomplete(n, sc)
          IN \/ ~pv.advanced /\ d = n
             \/ d = [c EXCEPT !.pending = @ \ {p}]
             \/ d = [Rearm(n, TurnOf(c, t)) EXCEPT
                              !.outside = left /\ (out[h.tool].kind = "context" \/ c.outside)]
    BY <2>1 DEF Commit
  <2> DEFINE pv == Preview(c, p.text, sc)
             n == [pv.cursor EXCEPT !.pending = @ \ {p}]
             left == Unread(n, sc) # {} \/ Incomplete(n, sc)
             outside == left /\ (out[h.tool].kind = "context" \/ c.outside)
             base == Collapse(c, sc)
             added == {b \in p.text : <<b[1], b[2]>> \in Unread(c, sc)}
             cov == base.cov \union added
             e == [base EXCEPT !.cov = cov]
             Names == {"ws", "from", "pos", "cov", "rev", "stop", "high", "last",
                       "informed", "outside", "pending"}
  <2>3. /\ pv.cursor = Collapse(e, sc)
        /\ ~pv.advanced => added \subseteq base.cov
    <3>1. pv.cursor = Collapse([base EXCEPT !.cov = @ \union added], sc)
      BY DEF Preview
    <3>2. [base EXCEPT !.cov = @ \union added] = e
      OBVIOUS
    <3> QED BY <3>1, <3>2 DEF Preview
  <2> DEFINE pos == [f \in Feeds |-> Prefix(c, sc, f)]
             bcov == {b \in c.cov : b[2] > pos[b[1]]}
  <2>4. base = [c EXCEPT !.pos = pos, !.cov = bcov]
    BY DEF Collapse
  <2>5. pos \in [Feeds -> Nat] /\ \A f \in Feeds : pos[f] <= sc.len[f]
    <3> SUFFICES ASSUME NEW f \in Feeds PROVE pos[f] \in Nat /\ pos[f] <= sc.len[f]
      OBVIOUS
    <3>1. /\ c.pos[f] \in Nat /\ sc.len[f] \in Nat /\ c.pos[f] <= sc.len[f]
      BY DEF Cursor, ScanType
    <3>2. pos[f] \in c.pos[f] .. sc.len[f]
      BY <3>1, PrefixProperties
    <3> QED BY <3>1, <3>2
  <2>6. Waiting(c) \subseteq Waiting(base)
    <3>1. c.pos \in [Feeds -> Nat] /\ {"ws", "from", "pos", "cov"} \subseteq DOMAIN c
      BY DEF Cursor
    <3> QED BY <3>1, CollapseKeepsWaiting
  <2> HIDE DEF c, pos, bcov
  <2>7. /\ Names \subseteq DOMAIN base /\ base.pos = pos /\ base.rev = c.rev
    BY <2>4 DEF Cursor, c
  <2> HIDE DEF base, added, pv
  <2>8. Names \subseteq DOMAIN e /\ e.pos = pos /\ e.rev = c.rev
    BY <2>7
  <2>9. ASSUME ~pv.advanced PROVE Waiting(c) \subseteq Waiting(pv.cursor)
    <3>1. cov = base.cov
      BY <2>3, <2>9
    <3>2. SameRead(base, e)
      BY <2>7, <3>1 DEF SameRead
    <3>3. Waiting(e) = Waiting(base)
      BY <3>2, SameReadWaits
    <3>4. Waiting(e) \subseteq Waiting(Collapse(e, sc))
      <4> HIDE DEF e
      <4> QED BY <2>5, <2>8, CollapseKeepsWaiting DEF c
    <3> QED BY <2>3, <2>6, <3>3, <3>4
  <2>10. /\ Names \subseteq DOMAIN pv.cursor /\ pv.cursor.rev = c.rev
    <3> HIDE DEF e
    <3> QED BY <2>3, <2>8 DEF Collapse
  <2>11. SameRead(pv.cursor, n) /\ Names \subseteq DOMAIN n
    BY <2>10 DEF SameRead
  <2>12. CASE ~pv.advanced /\ d = n
    BY <2>9, <2>11, <2>12, SameReadWaits DEF c
  <2>13. CASE d = [c EXCEPT !.pending = @ \ {p}]
    BY <1>2, <2>13 DEF c
  <2>14. CASE d = [Rearm(n, TurnOf(c, t)) EXCEPT !.outside = outside]
    <3>1. n.rev = c.rev /\ c.rev \in Nat
      BY <2>10, <2>11 DEF SameRead, Cursor, c
    <3> HIDE DEF n, outside
    <3>2. d = [n EXCEPT !.rev = n.rev + 1, !.stop = 0, !.high = 0, !.last = 0,
                        !.informed = TurnOf(c, t), !.outside = outside]
      BY <2>11, <2>14 DEF Rearm
    <3>3. d.rev = n.rev + 1
      BY <2>11, <3>2
    <3> QED BY <3>1, <3>3 DEF c
  <2> HIDE DEF n
  <2>15. \/ ~pv.advanced /\ d = n
         \/ d = [c EXCEPT !.pending = @ \ {p}]
         \/ d = [Rearm(n, TurnOf(c, t)) EXCEPT !.outside = outside]
    BY <2>2 DEF pv, n
  <2> QED BY <2>12, <2>13, <2>14, <2>15 DEF c
<1> QED BY <1>1, <1>3, <1>4, <1>5, <1>6

LEMMA WaitingCounts ==
  ASSUME Types, NEW c \in Cursor, NEW d \in Cursor, Waiting(c) \subseteq Waiting(d)
  PROVE  /\ Cardinality(Waiting(c)) \in Nat /\ Cardinality(Waiting(d)) \in Nat
         /\ Cardinality(Waiting(c)) <= Cardinality(Waiting(d))
<1>1. IsFiniteSet(Waiting(d)) /\ Cardinality(Waiting(d)) \in Nat
      /\ Cardinality(Waiting(c)) \in Nat
  BY FullScanType, UnreadFinite DEF Waiting
<1> QED BY <1>1, FS_Subset

(* No more was told at c's revision than waits in it. *)
Counted(S, c) ==
    \A i \in DOMAIN S : S[i].rev = c.rev => S[i].count <= Cardinality(Waiting(c))

LEMMA CountsHoldMeaning == CountsHold <=> (cursor # NoCursor => Counted(sent, cursor))
BY DEF CountsHold, Counted, Waiting, FullScan

LEMMA VirtualCounts ==
  ASSUME CountInv, NEW ep \in Epoch
  PROVE  Counted(sent, Virtual(ep))
<1> DEFINE v == Virtual(ep)
<1>1. LedgerInv /\ CursorInv /\ (cursor # NoCursor => Counted(sent, cursor))
  BY CountsHoldMeaning DEF CountInv, LedgerInv
<1>2. CASE ~SameEpoch(cursor, ep)
  <2>1. \A i \in DOMAIN sent : sent[i].rev < v.rev /\ sent[i].rev \in Nat /\ v.rev \in Nat
    <3>1. sent \in Seq(Entry)
      BY <1>1 DEF CursorInv, Types, Entry
    <3> QED BY <1>1, <1>2, <3>1, VirtualBooks, EntryTypes DEF Cursor
  <2>2. \A i \in DOMAIN sent : sent[i].rev # v.rev
    BY <2>1
  <2> QED BY <2>2 DEF Counted
<1>3. CASE SameEpoch(cursor, ep)
  <2>1. SameRead(cursor, v) /\ cursor # NoCursor
    BY <1>1, <1>3, VirtualProperties DEF SameRead
  <2>2. Waiting(v) = Waiting(cursor) /\ v.rev = cursor.rev
    BY <2>1, SameReadWaits DEF SameRead
  <2> HIDE DEF v
  <2>3. Counted(sent, v)
    BY <1>1, <2>1, <2>2 DEF Counted
  <2> QED BY <2>3 DEF v
<1> QED BY <1>2, <1>3

LEMMA CountedMore ==
  ASSUME Types, NEW S \in Seq(Entry), NEW c \in Cursor, NEW d \in Cursor, d.rev = c.rev,
         Waiting(c) \subseteq Waiting(d), Counted(S, c)
  PROVE  Counted(S, d)
<1> SUFFICES ASSUME NEW i \in DOMAIN S, S[i].rev = d.rev
             PROVE  S[i].count <= Cardinality(Waiting(d))
  BY DEF Counted
<1>1. S[i].count <= Cardinality(Waiting(c)) /\ S[i].count \in Nat
  BY EntryTypes DEF Counted
<1> QED BY <1>1, WaitingCounts

LEMMA CountedAppend ==
  ASSUME NEW S \in Seq(Entry), NEW e \in Entry, NEW c, Counted(S, c),
         e.count <= Cardinality(Waiting(c))
  PROVE  Counted(Append(S, e), c)
<1>1. \A i \in DOMAIN Append(S, e) :
         Append(S, e)[i] = e \/ (i \in DOMAIN S /\ Append(S, e)[i] = S[i])
  OBVIOUS
<1> QED BY <1>1 DEF Counted

LEMMA CountsWritten ==
  ASSUME LedgerInv', UNCHANGED <<scene, feed>>, NEW d, cursor' = d, NEW S, sent' = S,
         Counted(S, d)
  PROVE  CountInv'
<1>1. Counted(S, d)'
  BY DEF Counted, Waiting, FullScan, Unread, UnreadIn, Eligible, Acknowledged
<1> QED BY <1>1 DEF CountInv, CountsHold, Counted, Waiting, FullScan

LEMMA WriteClaimCounts ==
  ASSUME CountInv, WriteClaim
  PROVE  CountInv'
<1>1. /\ UNCHANGED <<scene, feed>> /\ txn # NoTxn
      /\ txn.hook.op \in {"prompt", "tool", "stop"}
  BY DEF WriteClaim, Informational
<1> DEFINE h == txn.hook
           ep == txn.epoch
           sc == txn.scan
           t == txn.turn
           c == Claim(h, ep, sc, t)
           v == Virtual(ep)
<1>2. cursor' = c.cursor /\ sent' = sent \o c.sent
  BY DEF WriteClaim
<1>3. /\ LedgerInv /\ CursorInv /\ Types /\ ep \in Epoch /\ sc \in ScanType /\ t \in Nat
      /\ sent \in Seq(Entry) /\ h.op \in {"prompt", "tool", "stop"}
  BY <1>1 DEF CountInv, LedgerInv, CursorInv, Types, Txn, Entry
<1>4. LedgerInv'
  BY <1>3, WriteClaimLedger
<1>5. \A f \in Feeds : v.pos[f] <= sc.len[f] /\ sc.len[f] <= Len(feed[f])
  <2>1. /\ \A f \in Feeds : sc.len[f] <= Len(feed[f]) /\ sc.len[f] \in Nat
        /\ cursor # NoCursor => \A f \in Feeds : cursor.pos[f] <= sc.len[f]
    BY <1>1, <1>3 DEF CursorInv, ScanCurrent, ScanType
  <2>2. \/ cursor # NoCursor /\ v.pos = cursor.pos
        \/ \A f \in Feeds : v.pos[f] = 0
    BY <1>3, VirtualProperties
  <2> QED BY <2>1, <2>2
<1>6. /\ \/ c.sent = <<>> /\ SameMarks(v, c.cursor)
         \/ \E e : c.sent = <<e>> /\ Claimed(v, c.cursor, e, h, ep, t)
  BY <1>1, <1>3, ClaimMarks
<1>7. /\ Waiting(v) \subseteq Waiting(c.cursor)
      /\ \A i \in DOMAIN c.sent : c.sent[i].count <= Cardinality(Waiting(v))
  BY <1>3, <1>5, ClaimCounts
<1>8. c.cursor \in Cursor /\ v \in Cursor /\ c.cursor.rev = v.rev
  BY <1>3, <1>5, ClaimProperties, VirtualProperties
<1>9. Counted(sent, v)
  BY <1>3, VirtualCounts
<1> HIDE DEF h, ep, sc, t, c, v
<1>10. PICK d \in Cursor : cursor' = d /\ d = c.cursor
  BY <1>2, <1>8
<1>11. Counted(sent, d)
  BY <1>3, <1>7, <1>8, <1>9, <1>10, CountedMore
<1>12. CASE c.sent = <<>>
  <2>1. sent' = sent
    BY <1>2, <1>3, <1>12
  <2>2. PICK S \in Seq(Entry) : S = sent
    BY <1>3
  <2> QED BY <1>1, <1>4, <1>10, <1>11, <2>1, <2>2, CountsWritten
<1>13. CASE \E e : c.sent = <<e>> /\ Claimed(v, d, e, h, ep, t)
  <2>1. PICK e : c.sent = <<e>> /\ Claimed(v, d, e, h, ep, t)
    BY <1>13
  <2>2. e \in Entry
    BY <2>1 DEF Claimed, Entry
  <2>3. sent' = Append(sent, e)
    BY <1>2, <1>3, <2>1, <2>2
  <2>4. e.count <= Cardinality(Waiting(d))
    <3>1. e.count <= Cardinality(Waiting(v)) /\ e.count \in Nat
      BY <1>7, <2>1, <2>2, EntryTypes
    <3> QED BY <1>3, <1>7, <1>8, <1>10, <3>1, WaitingCounts
  <2>5. Counted(Append(sent, e), d)
    BY <1>3, <1>11, <2>2, <2>4, CountedAppend
  <2>6. PICK S : S = Append(sent, e)
    OBVIOUS
  <2> QED BY <1>1, <1>4, <1>10, <2>3, <2>5, <2>6, CountsWritten
<1> QED BY <1>6, <1>10, <1>12, <1>13

LEMMA CountsAside ==
  ASSUME CountInv, LedgerInv', UNCHANGED <<scene, feed, cursor, sent>>
  PROVE  CountInv'
BY DEF CountInv, CountsHold, Unread, UnreadIn, Eligible, Acknowledged

LEMMA WriteReadCounts ==
  ASSUME CountInv, WriteRead
  PROVE  CountInv'
<1>1. /\ UNCHANGED <<scene, feed>> /\ txn # NoTxn
      /\ txn.hook.op \notin {"prompt", "tool", "stop"}
  BY DEF WriteRead, Informational
<1> DEFINE h == txn.hook
           ep == txn.epoch
           sc == txn.scan
           t == txn.turn
           v == Virtual(ep)
           R == ReadResult(h, ep, sc, t)
<1>2. /\ LedgerInv /\ CursorInv /\ Types /\ Nonces /\ ep \in Epoch /\ sc \in ScanType
      /\ t \in Nat /\ h \in HookCalls /\ sent \in Seq(Entry)
  BY <1>1 DEF CountInv, LedgerInv, CursorInv, Types, Txn, Entry
<1>3. LedgerInv'
  BY <1>2, WriteReadLedger
<1>4. Forgotten = sent
  <2>1. ~(cursor # NoCursor /\ cursor.v = 1)
    BY <1>2 DEF LedgerInv, Ledger
  <2>2. Forgotten = [i \in DOMAIN sent |-> sent[i]]
    BY <2>1 DEF Forgotten
  <2> QED BY <1>2, <2>2
<1>5. IF R = {} THEN UNCHANGED <<cursor, sent>>
      ELSE \E c \in R : /\ cursor' = c
                        /\ sent' = sent \o
                             IF c.rev = v.rev THEN <<>>
                             ELSE <<[op |-> "read", rev |-> c.rev, count |-> 0,
                                     turn |-> c.informed, stage |-> "emitted"]>>
  BY <1>4 DEF WriteRead
<1>6. v \in Cursor /\ Good(v)
  BY <1>2, VirtualProperties
<1>7. \A f \in Feeds : v.pos[f] <= sc.len[f] /\ sc.len[f] <= Len(feed[f])
  <2>1. /\ \A f \in Feeds : sc.len[f] <= Len(feed[f]) /\ sc.len[f] \in Nat
        /\ cursor # NoCursor => \A f \in Feeds : cursor.pos[f] <= sc.len[f]
    BY <1>1, <1>2 DEF CursorInv, ScanCurrent, ScanType
  <2>2. \/ cursor # NoCursor /\ v.pos = cursor.pos
        \/ \A f \in Feeds : v.pos[f] = 0
    BY <1>2, VirtualProperties
  <2> QED BY <2>1, <2>2
<1>8. \A d \in R : /\ d \in Cursor
                   /\ d.rev = v.rev \/ d.rev = v.rev + 1
                   /\ d.rev # v.rev \/ Waiting(v) \subseteq Waiting(d)
  BY <1>1, <1>2, <1>6, <1>7, ReadResultWrites, ReadCounts DEF ReadWrites
<1>9. Counted(sent, v)
  BY <1>2, VirtualCounts
<1>10. \A i \in DOMAIN sent : sent[i].rev \in Nat /\ sent[i].rev <= v.rev
  BY <1>2, VirtualBooks, EntryTypes DEF Booked, Marked
<1> HIDE DEF h, ep, sc, t, v, R
<1>11. CASE R = {}
  BY <1>1, <1>3, <1>5, <1>11, CountsAside
<1>12. CASE R # {}
  <2>1. PICK d \in R : /\ cursor' = d
                       /\ sent' = sent \o
                             IF d.rev = v.rev THEN <<>>
                             ELSE <<[op |-> "read", rev |-> d.rev, count |-> 0,
                                     turn |-> d.informed, stage |-> "emitted"]>>
    BY <1>5, <1>12
  <2>3. CASE d.rev = v.rev
    <3>1. sent' = sent
      BY <1>2, <2>1, <2>3
    <3>2. PICK S \in Seq(Entry) : S = sent
      BY <1>2
    <3>3. Counted(S, d)
      BY <1>2, <1>6, <1>8, <1>9, <2>3, <3>2, CountedMore
    <3> QED BY <1>1, <1>3, <2>1, <3>1, <3>2, <3>3, CountsWritten
  <2>4. CASE d.rev # v.rev
    <3> DEFINE e == [op |-> "read", rev |-> d.rev, count |-> 0,
                     turn |-> d.informed, stage |-> "emitted"]
    <3>1. d \in Cursor /\ d.rev = v.rev + 1 /\ v.rev \in Nat
      BY <1>6, <1>8, <2>4 DEF Cursor
    <3>2. e \in Entry /\ e.count = 0
      BY <3>1 DEF Entry, Read, Cursor
    <3>3. sent' = Append(sent, e)
      BY <1>2, <2>1, <2>4, <3>2
    <3> HIDE DEF e
    <3>4. Counted(sent, d)
      <4>1. \A i \in DOMAIN sent : sent[i].rev # d.rev
        BY <1>10, <3>1
      <4> QED BY <4>1 DEF Counted
    <3>5. 0 <= Cardinality(Waiting(d))
      BY <1>2, <3>1, WaitingCounts
    <3>6. Counted(Append(sent, e), d)
      BY <1>2, <3>2, <3>4, <3>5, CountedAppend
    <3>7. PICK S : S = Append(sent, e)
      OBVIOUS
    <3> QED BY <1>1, <1>3, <2>1, <3>3, <3>6, <3>7, CountsWritten
  <2> QED BY <2>3, <2>4
<1> QED BY <1>11, <1>12

LEMMA InheritCounts ==
  ASSUME CountInv, Inherit
  PROVE  CountInv'
<1>1. /\ UNCHANGED <<scene, feed>> /\ cursor = NoCursor /\ epoch # NoEpoch
      /\ LedgerInv /\ sent = <<>>
  BY DEF Inherit, CountInv, LedgerInv, Ledger
<1>2. LedgerInv'
  BY <1>1, InheritLedger
<1> DEFINE c == FirstCursor(epoch)
           count == Cardinality(Unread(c, Scan))
           ct == TurnOf(c, turn)
<1>3. PICK op \in {"none", "tool", "stop"} :
        /\ cursor' = [c EXCEPT !.v = scene.version,
                         !.stop = IF op = "stop" THEN c.rev ELSE 0,
                         !.high = IF op = "none" THEN 0 ELSE count,
                         !.last = IF op = "none" \/ scene.version = 1 THEN 0 ELSE ct]
        /\ sent' = IF op = "none" THEN sent ELSE
              Append(sent, [op |-> op, ws |-> epoch.ws, from |-> epoch.from,
                            rev |-> c.rev, count |-> count,
                            turn |-> IF scene.version = 1 THEN 0 ELSE ct,
                            stage |-> "emitted", before |-> <<0, 0>>,
                            after |-> <<count, ct>>])
  BY DEF Inherit
<1>4. /\ Types /\ epoch \in Epoch /\ Scan \in ScanType
      /\ \A f \in Feeds : Scan.len[f] <= Len(feed[f])
  BY <1>1, ScanProperties DEF LedgerInv, CursorInv, Types
<1>5. c = Virtual(epoch)
  BY <1>1 DEF Virtual, SameEpoch
<1> HIDE DEF c
<1>6. c \in Cursor
  BY <1>1, <1>4, <1>5, VirtualProperties DEF LedgerInv
<1>7. count <= Cardinality(Waiting(c))
  BY <1>4, <1>6, ScanFindsWaiting
<1> DEFINE s == IF op = "stop" THEN c.rev ELSE 0
           g == IF op = "none" THEN 0 ELSE count
           l == IF op = "none" \/ scene.version = 1 THEN 0 ELSE ct
           d == [c EXCEPT !.v = scene.version, !.stop = s, !.high = g, !.last = l]
           e == [op |-> op, ws |-> epoch.ws, from |-> epoch.from,
                 rev |-> c.rev, count |-> count,
                 turn |-> IF scene.version = 1 THEN 0 ELSE ct,
                 stage |-> "emitted", before |-> <<0, 0>>, after |-> <<count, ct>>]
<1>8. cursor' = d /\ sent' = IF op = "none" THEN <<>> ELSE <<e>>
  BY <1>1, <1>3
<1>9. e.count = count
  OBVIOUS
<1> HIDE DEF e, count, s, g, l
<1>10. SameRead(c, d)
  BY <1>6 DEF Cursor, SameRead
<1>11. Waiting(d) = Waiting(c)
  BY <1>10, SameReadWaits
<1> HIDE DEF d
<1> DEFINE S == IF op = "none" THEN <<>> ELSE <<e>>
<1>12. \A i \in DOMAIN S : S[i] = e
  OBVIOUS
<1> HIDE DEF S
<1>13. Counted(S, d)
  BY <1>7, <1>9, <1>11, <1>12 DEF Counted
<1>14. cursor' = d /\ sent' = S
  BY <1>8 DEF S
<1> QED BY <1>1, <1>2, <1>13, <1>14, CountsWritten

(* Counts and revisions of deliveries stay, and so does what was read. *)
LEMMA CountsUnread ==
  ASSUME CountInv, LedgerInv', UNCHANGED <<scene, feed>>, cursor # NoCursor,
         SameRead(cursor, cursor'), DOMAIN sent' = DOMAIN sent,
         \A i \in DOMAIN sent : sent'[i].rev = sent[i].rev /\ sent'[i].count = sent[i].count
  PROVE  CountInv'
<1>1. PICK d, S : d = cursor' /\ S = sent'
  OBVIOUS
<1>2. Waiting(d) = Waiting(cursor) /\ d.rev = cursor.rev
  BY <1>1, SameReadWaits DEF SameRead
<1>3. Counted(sent, cursor)
  BY CountsHoldMeaning DEF CountInv
<1>4. Counted(S, d)
  BY <1>1, <1>2, <1>3 DEF Counted
<1> QED BY <1>1, <1>4, CountsWritten

LEMMA SettleKeeps ==
  ASSUME CursorInv, NEW i \in DOMAIN sent, NEW stage, Settle(i, stage)
  PROVE  /\ DOMAIN sent' = DOMAIN sent
         /\ \A k \in DOMAIN sent :
               sent'[k].rev = sent[k].rev /\ sent'[k].count = sent[k].count
<1>1. sent' = [sent EXCEPT ![i].stage = stage] /\ sent \in Seq(Entry) /\ sent[i] \in Entry
  BY DEF Settle, CursorInv, Types, Entry
<1>2. sent' = [sent EXCEPT ![i] = [sent[i] EXCEPT !.stage = stage]]
  BY <1>1
<1> DEFINE e == [sent[i] EXCEPT !.stage = stage]
<1>3. e.rev = sent[i].rev /\ e.count = sent[i].count
  OBVIOUS
<1> HIDE DEF e
<1> QED BY <1>1, <1>2, <1>3 DEF e

LEMMA SettleCounts ==
  ASSUME CountInv, NEW i \in DOMAIN sent, Emit(i) \/ Fail(i) \/ Rollback(i)
  PROVE  CountInv'
<1>1. LedgerInv /\ CursorInv /\ cursor # NoCursor /\ cursor \in Cursor
  BY DEF CountInv, LedgerInv, Ledger, CursorInv, Types
<1>2. LedgerInv'
  BY <1>1, SettleLedger, RollbackLedger
<1>3. UNCHANGED <<scene, feed>> /\ \E stage : Settle(i, stage)
  BY DEF Emit, Fail, Rollback
<1>4. SameRead(cursor, cursor')
  <2>1. \E s, h, l : cursor' \in {cursor, [cursor EXCEPT !.stop = s],
                                  [cursor EXCEPT !.stop = s, !.high = h, !.last = l]}
    <3>1. CASE Emit(i) \/ Fail(i)
      BY <3>1 DEF Emit, Fail
    <3>2. CASE Rollback(i)
      BY <3>2 DEF Rollback
    <3> QED BY <3>1, <3>2
  <2> QED BY <1>1, <2>1 DEF Cursor, SameRead
<1>5. /\ DOMAIN sent' = DOMAIN sent
      /\ \A k \in DOMAIN sent :
            sent'[k].rev = sent[k].rev /\ sent'[k].count = sent[k].count
  BY <1>1, <1>3, SettleKeeps
<1> QED BY <1>1, <1>2, <1>3, <1>4, <1>5, CountsUnread

LEMMA ExpireCounts ==
  ASSUME CountInv, Expire
  PROVE  CountInv'
<1>1. UNCHANGED <<scene, feed, sent>> /\ cursor # NoCursor
  BY DEF Expire
<1>2. LedgerInv' /\ cursor \in Cursor
  BY <1>1, ExpireLedger DEF CountInv, LedgerInv, CursorInv, Types
<1>3. PICK ps : cursor' = [cursor EXCEPT !.pending = ps]
  BY <1>2 DEF Expire, Cursor
<1>4. SameRead(cursor, cursor')
  BY <1>2, <1>3 DEF Cursor, SameRead
<1> QED BY <1>1, <1>2, <1>4, CountsUnread

(* A feed that grows only adds to what waits. *)
LEMMA PublishCounts ==
  ASSUME CountInv, NEW f \in scene.feeds, Publish(f)
  PROVE  CountInv'
<1>1. /\ LedgerInv /\ CursorInv /\ Types /\ f \in Feeds /\ feed \in [Feeds -> Seq(Record)]
      /\ UNCHANGED <<scene, cursor, sent, turn, txn>>
  BY SceneFacts DEF CountInv, LedgerInv, CursorInv, Types, Publish
<1>2. LedgerInv'
  <2>1. CursorInv'
    BY <1>1, PublishStep DEF Kept
  <2> QED BY <1>1, <2>1, LedgerAside
<1>3. PICK r : feed' = [feed EXCEPT ![f] = Append(feed[f], r)]
  BY DEF Publish
<1>4. feed' \in [Feeds -> Seq(Record)]
  <2>1. Record' = Record
    BY <1>1, TypesStay
  <2> QED BY <1>2, <2>1 DEF LedgerInv, CursorInv, Types
<1>5. ASSUME NEW g \in Feeds
      PROVE  /\ Len(feed[g]) \in Nat /\ Len(feed'[g]) \in Nat /\ Len(feed[g]) <= Len(feed'[g])
             /\ \A n \in 1 .. Len(feed[g]) : feed'[g][n] = feed[g][n]
  <2>1. feed[g] \in Seq(Record) /\ feed'[g] \in Seq(Record)
    BY <1>1, <1>4
  <2>2. feed'[g] = IF g = f THEN Append(feed[f], r) ELSE feed[g]
    BY <1>1, <1>3
  <2>3. CASE g # f
    BY <2>1, <2>2, <2>3
  <2>4. CASE g = f
    BY <2>1, <2>2, <2>4
  <2> QED BY <2>3, <2>4
<1> SUFFICES ASSUME cursor # NoCursor PROVE CountsHold'
  BY <1>1, <1>2 DEF CountInv, CountsHold
<1>6. cursor \in Cursor /\ cursor' = cursor /\ Counted(sent, cursor)
  BY <1>1, CountsHoldMeaning DEF CountInv, Types
<1>7. PICK c \in Cursor : c = cursor
  BY <1>6
<1>8. Waiting(c) \subseteq Waiting(c)'
  <2> SUFFICES ASSUME NEW g \in Feeds, NEW k \in UnreadIn(c, FullScan, g)
               PROVE  k \in UnreadIn(c, FullScan, g)'
    BY DEF Waiting, Unread
  <2>1. /\ k \in {g} \X (c.pos[g] + 1 .. Len(feed[g]))
        /\ Eligible(c, k) /\ ~Acknowledged(c.cov, k)
    BY DEF UnreadIn, FullScan
  <2>2. k[1] = g /\ k[2] \in 1 .. Len(feed[g]) /\ c.pos[g] \in Nat
    BY <1>5, <2>1 DEF Cursor
  <2>3. k \in {g} \X (c.pos[g] + 1 .. Len(feed'[g]))
    BY <1>5, <2>1, <2>2
  <2>4. Eligible(c, k)'
    BY <1>5, <2>1, <2>2 DEF Eligible
  <2>5. ~Acknowledged(c.cov, k)'
    BY <1>1, <2>1 DEF Acknowledged
  <2> QED BY <2>3, <2>4, <2>5 DEF UnreadIn, FullScan
<1>9. /\ Cardinality(Waiting(c)) \in Nat /\ Cardinality(Waiting(c)') \in Nat
      /\ Cardinality(Waiting(c)) <= Cardinality(Waiting(c)')
  <2>1. \A g \in Feeds : Len(feed'[g]) <= MaxRecords
    BY <1>2 DEF LedgerInv, CursorInv, Feeding
  <2>2. IsFiniteSet(Waiting(c)')
    <3>1. Waiting(c)' \subseteq Feeds \X (1 .. MaxRecords)
      <4> SUFFICES ASSUME NEW g \in Feeds, NEW k \in UnreadIn(c, FullScan, g)'
                   PROVE  k \in Feeds \X (1 .. MaxRecords)
        BY DEF Waiting, Unread
      <4>1. k \in {g} \X (c.pos[g] + 1 .. Len(feed'[g]))
        BY DEF UnreadIn, FullScan
      <4>2. c.pos[g] \in Nat /\ Len(feed'[g]) \in Nat /\ MaxRecords \in Nat
        BY <1>5, NudgeAssumption DEF Cursor
      <4> QED BY <2>1, <4>1, <4>2
    <3>2. IsFiniteSet(Feeds \X (1 .. MaxRecords))
      <4>1. IsFiniteSet(Feeds) /\ 1 \in Int /\ MaxRecords \in Int
        BY NudgeAssumption
      <4>2. IsFiniteSet(1 .. MaxRecords)
        BY <4>1, FS_Interval
      <4> QED BY <4>1, <4>2, FS_Product
    <3> QED BY <3>1, <3>2, FS_Subset
  <2>3. IsFiniteSet(Waiting(c))
    BY <1>1, FullScanType, UnreadFinite DEF Waiting
  <2> QED BY <1>8, <2>2, <2>3, FS_Subset, FS_CardinalityType
<1>10. ASSUME NEW i \in DOMAIN sent, sent[i].rev = c.rev
       PROVE  sent[i].count <= Cardinality(Waiting(c)')
  <2>1. sent[i].count <= Cardinality(Waiting(c))
    BY <1>6, <1>7, <1>10 DEF Counted
  <2>2. sent[i].count \in Nat
    <3>1. sent[i] \in Entry
      BY <1>1 DEF Types, Entry
    <3> QED BY <3>1, EntryTypes
  <2> QED BY <1>9, <2>1, <2>2
<1> QED BY <1>1, <1>7, <1>10 DEF CountsHold, Waiting, FullScan

LEMMA CountInvStep ==
  ASSUME CountInv, [Next]_vars
  PROVE  CountInv'
<1>1. LedgerInv /\ LedgerInv'
  BY LedgerInvStep DEF CountInv
<1>2. ASSUME NEW f \in scene.feeds, Publish(f) PROVE CountInv'
  BY <1>2, PublishCounts
<1>3. ASSUME UNCHANGED <<scene, feed, cursor, sent>> PROVE CountInv'
  BY <1>1, <1>3, CountsAside
<1>4. CASE \/ \E f \in scene.feeds : Change(f)
           \/ Tick
           \/ \E w \in scene.workstreams : Move(w)
           \/ \E t \in Tools : ReadCommand(t)
           \/ \E h \in HookCalls : Open(h)
           \/ Check
           \/ UNCHANGED vars
  BY <1>3, <1>4 DEF Change, Tick, Move, ReadCommand, Open, Check, vars
<1>5. CASE Expire \/ WriteClaim \/ WriteRead \/ Inherit
  BY <1>5, ExpireCounts, WriteClaimCounts, WriteReadCounts, InheritCounts
<1>6. ASSUME NEW i \in DOMAIN sent, Emit(i) \/ Fail(i) \/ Rollback(i) PROVE CountInv'
  BY <1>6, SettleCounts
<1> QED BY <1>2, <1>4, <1>5, <1>6 DEF Next

LEMMA InitCountInv == Init /\ scene.version # 1 => CountInv
BY InitLedgerInv DEF Init, CountInv, CountsHold

-----------------------------------------------------------------------------
(* Marks are backed by deliveries *)

(* What the marks stand for was delivered, or is about to be; a Stop that may
   still be rolled back will find the marks that it knows, or higher ones. *)
Backed(S, c) ==
    /\ c.high > 0 => \E i \in DOMAIN S :
          S[i].rev = c.rev /\ S[i].stage # "void" /\ S[i].count >= c.high
    /\ c.stop > 0 => \E i \in DOMAIN S :
          S[i].rev = c.rev /\ S[i].stage # "void" /\ S[i].op = "stop"
    /\ \A i \in DOMAIN S : Revocable(S[i]) /\ S[i].rev = c.rev =>
          /\ c.ws = S[i].ws /\ c.from = S[i].from
          /\ c.high = S[i].after[1] => c.last = S[i].after[2]

(* What a Stop would restore is backed without it. *)
Restorable(S) ==
    \A i \in DOMAIN S : Revocable(S[i]) /\ S[i].before[1] > 0 =>
        \E j \in 1 .. i - 1 : /\ S[j].op \in Informational /\ S[j].rev = S[i].rev
                              /\ S[j].count >= S[i].before[1]

Sizes(S) ==
    \A i \in DOMAIN S : /\ S[i].op = "read" => S[i].count = 0
                        /\ S[i].op = "stop" => S[i].count <= S[i].after[1]

(* What both decoders ask of a cursor, at any version. *)
Sane(c) ==
    /\ c.rev > 0 /\ c.stop \in {0, c.rev} /\ c.gen > 0
    /\ c.last > 0 => c.high > 0
    /\ Claude => c.last <= c.gen /\ c.informed <= c.gen
    /\ IsFiniteSet(c.pending) /\ DecodesPending(c)
    /\ Entries(c.cov) <= MaxCoverage

(* ... and of the marks that a Stop would restore. *)
SaneMarks(S, c) ==
    \A i \in DOMAIN S : Revocable(S[i]) =>
        /\ S[i].before[2] > 0 => S[i].before[1] > 0
        /\ Claude => S[i].before[2] <= c.gen

Proper(S, c) ==
    Backed(S, c) /\ Restorable(S) /\ Sizes(S) /\ Sane(c) /\ SaneMarks(S, c)

(* Nothing retires or carries the turn of a Stop that may be rolled back. *)
StopsAlone ==
    txn # NoTxn /\ (txn.hook.op = "stop" \/ (txn.hook.op = "prompt" /\ Claude))
    => ~StopHeld

(* Only a reservation takes a nonce. *)
Budget ==
    /\ nonces <= scene.nonces
    /\ txn # NoTxn /\ txn.hook.op = "reserve" => nonces < scene.nonces

FileInv ==
    /\ CountInv
    /\ cursor # NoCursor => Proper(sent, cursor)
    /\ StopsAlone /\ Budget

(* What the invariant says of the property. *)
LEMMA FileInvHolds == FileInv => LedgerHolds
<1> SUFFICES ASSUME FileInv PROVE LedgerHolds
  OBVIOUS
<1>1. /\ Types /\ CursorInv /\ CountsHold /\ LedgerInv
  BY DEF FileInv, CountInv, LedgerInv, CursorInv
<1>2. cursor # NoCursor =>
        /\ cursor \in Cursor /\ Good(cursor) /\ Backed(sent, cursor) /\ Sane(cursor)
        /\ cursor.v # 1
  BY <1>1 DEF FileInv, Proper, CursorInv, Types, LedgerInv, Ledger
<1>3. TypeOK
  <2>1. scene.nonces \in Nat /\ nonces \in 0 .. scene.nonces
    BY <1>1, NudgeAssumption DEF Types, SceneType, FileInv, Budget
  <2>2. cursor # NoCursor => cursor \in Cursors
    BY <1>1, <1>2, CursorsBound
  <2>3. cursor # NoCursor => cursor.from \in 1 .. scene.time /\ cursor.cov \subseteq Bits
    BY <1>2 DEF Cursor
  <2>4. cursor # NoCursor => \A f \in Feeds : cursor.pos[f] <= Len(feed[f])
    BY <1>2 DEF Good
  <2> QED BY <1>1, <2>1, <2>2, <2>3, <2>4 DEF TypeOK, Types, Record, Epoch
<1>4. LedgerBacked
  BY <1>2 DEF LedgerBacked, Backed
<1>5. Decodable
  <2> SUFFICES ASSUME cursor # NoCursor PROVE Decodes(cursor) /\ ReaderDecodes(cursor)
    BY DEF Decodable
  <2>1. /\ cursor.ws \in Workstreams /\ cursor.pos \in [Feeds -> Nat]
        /\ cursor.last \in Nat /\ cursor.gen \in Nat /\ cursor.high \in Nat
    BY <1>2 DEF Cursor
  <2>2. DecodesReads(cursor) /\ DecodesMarkers(cursor) /\ DecodesBase(cursor)
    BY <1>2, <2>1 DEF Sane, DecodesReads, DecodesMarkers, DecodesBase
  <2>3. DecodesDelivery(cursor) /\ ReaderDecodesBase(cursor)
    BY <1>2, <2>1 DEF Sane, DecodesDelivery, ReaderDecodesBase
  <2> QED BY <1>2, <2>2, <2>3 DEF Sane, Decodes, ReaderDecodes
<1> QED BY <1>1, <1>3, <1>4, <1>5 DEF LedgerHolds

-----------------------------------------------------------------------------
(* Backing *)

LEMMA BackedAppend ==
  ASSUME NEW S \in Seq(Entry), NEW c \in Cursor, NEW d \in Cursor, NEW e, NEW h,
         NEW ep \in Epoch, NEW t \in Nat, h.op \in {"prompt", "tool", "stop"},
         Claimed(c, d, e, h, ep, t), Backed(S, c), Restorable(S), Sizes(S),
         \A i \in DOMAIN S : Booked(S[i], c) /\ Pair(S[i], e),
         d.ws = ep.ws, d.from = ep.from, c.ws = ep.ws, c.from = ep.from
  PROVE  Backed(Append(S, e), d) /\ Restorable(Append(S, e)) /\ Sizes(Append(S, e))
<1> DEFINE T == Append(S, e)
           n == Len(S) + 1
<1>1. e \in Entry /\ e \in Delivery
  BY DEF Claimed, Entry
<1>2. /\ Len(S) \in Nat /\ DOMAIN S = 1 .. Len(S) /\ DOMAIN T = 1 .. n /\ n \in DOMAIN T
      /\ \A i \in DOMAIN S : T[i] = S[i] /\ i \in DOMAIN T /\ i # n
      /\ T[n] = e
      /\ \A i \in DOMAIN T : i = n \/ i \in DOMAIN S
  BY <1>1
<1> HIDE DEF T, n
<1>3. /\ e.rev = c.rev /\ d.rev = c.rev /\ e.stage = "claimed" /\ e.op = h.op
      /\ e.before[1] = c.high /\ e.after = <<d.high, d.last>>
      /\ d.high \in {c.high, e.count} /\ d.high >= c.high /\ d.high >= e.count
      /\ e.ws = ep.ws /\ e.from = ep.from
      /\ c.high \in Nat /\ d.high \in Nat /\ e.count \in Nat /\ c.rev \in Nat
      /\ e.op \in {"prompt", "tool", "stop"}
  BY <1>1 DEF Claimed, Cursor, Delivery
<1>4. IF h.op = "stop" THEN d.stop = d.rev /\ c.stop # c.rev
                       ELSE d.stop = c.stop /\ e.count > c.high
  BY DEF Claimed
<1>5. ASSUME d.high > 0
      PROVE  \E i \in DOMAIN T : T[i].rev = d.rev /\ T[i].stage # "void" /\ T[i].count >= d.high
  <2>1. CASE d.high = e.count
    BY <1>2, <1>3, <2>1
  <2>2. CASE d.high = c.high
    <3>1. PICK i \in DOMAIN S :
            S[i].rev = c.rev /\ S[i].stage # "void" /\ S[i].count >= c.high
      BY <1>5, <2>2 DEF Backed
    <3> QED BY <1>2, <1>3, <2>2, <3>1
  <2> QED BY <1>3, <2>1, <2>2
<1>6. ASSUME d.stop > 0
      PROVE  \E i \in DOMAIN T : T[i].rev = d.rev /\ T[i].stage # "void" /\ T[i].op = "stop"
  <2>1. CASE h.op = "stop"
    BY <1>2, <1>3, <2>1
  <2>2. CASE h.op # "stop"
    <3>1. PICK i \in DOMAIN S :
            S[i].rev = c.rev /\ S[i].stage # "void" /\ S[i].op = "stop"
      BY <1>4, <1>6, <2>2 DEF Backed
    <3> QED BY <1>2, <1>3, <3>1
  <2> QED BY <2>1, <2>2
<1>7. ASSUME NEW i \in DOMAIN T, Revocable(T[i]), T[i].rev = d.rev
      PROVE  /\ d.ws = T[i].ws /\ d.from = T[i].from
             /\ d.high = T[i].after[1] => d.last = T[i].after[2]
  <2>1. CASE i = n
    BY <1>2, <1>3, <2>1
  <2>2. CASE i \in DOMAIN S
    <3>1. Revocable(S[i]) /\ S[i].rev = c.rev /\ T[i] = S[i] /\ S[i] \in Entry
      BY <1>2, <1>3, <1>7, <2>2
    <3>2. c.ws = S[i].ws /\ c.from = S[i].from
      BY <2>2, <3>1 DEF Backed
    <3>3. Standing(S[i]) /\ S[i].after[1] <= c.high /\ Told(S[i], e) /\ S[i].after[1] \in Nat
      <4>1. Booked(S[i], c) /\ Pair(S[i], e)
        BY <2>2
      <4>2. S[i].op # "read"
        BY <3>1 DEF Revocable
      <4> QED BY <3>1, <4>1, <4>2, EntryTypes DEF Revocable, Standing, Booked, Marked, Pair
    <3>4. h.op # "stop"
      BY <1>3, <3>1, <3>3 DEF Told
    <3>5. d.high # S[i].after[1]
      BY <1>3, <1>4, <3>3, <3>4
    <3> QED BY <3>1, <3>2, <3>5
  <2> QED BY <1>2, <2>1, <2>2
<1>8. Backed(T, d)
  BY <1>5, <1>6, <1>7 DEF Backed
<1>9. ASSUME NEW i \in DOMAIN T, Revocable(T[i]), T[i].before[1] > 0
      PROVE  \E j \in 1 .. i - 1 : /\ T[j].op \in Informational /\ T[j].rev = T[i].rev
                                   /\ T[j].count >= T[i].before[1]
  <2>1. CASE i \in DOMAIN S
    <3>1. PICK j \in 1 .. i - 1 : /\ S[j].op \in Informational /\ S[j].rev = S[i].rev
                                  /\ S[j].count >= S[i].before[1]
      BY <1>2, <1>9, <2>1 DEF Restorable
    <3>2. j \in DOMAIN S
      BY <1>2, <2>1
    <3> QED BY <1>2, <2>1, <3>1, <3>2
  <2>2. CASE i = n
    <3>1. e.op = "stop" /\ c.high > 0
      BY <1>2, <1>3, <1>9, <2>2 DEF Revocable
    <3>2. PICK j \in DOMAIN S :
            S[j].rev = c.rev /\ S[j].stage # "void" /\ S[j].count >= c.high
      BY <3>1 DEF Backed
    <3>3. /\ S[j] \in Entry /\ S[j].op \in {"prompt", "tool", "stop", "read"}
          /\ S[j].count \in Nat
      BY <3>2, EntryTypes
    <3>4. S[j].op # "read"
      BY <1>3, <3>1, <3>2, <3>3 DEF Sizes
    <3>5. S[j].op # "stop"
      <4>1. Told(S[j], e)
        BY <3>2 DEF Pair
      <4> QED BY <1>3, <3>1, <3>2, <4>1 DEF Told, Standing
    <3>6. S[j].op \in Informational
      BY <3>3, <3>4, <3>5 DEF Informational
    <3>7. j \in 1 .. n - 1
      BY <1>2 DEF n
    <3> QED BY <1>2, <1>3, <2>2, <3>2, <3>6, <3>7
  <2> QED BY <1>2, <2>1, <2>2
<1>10. Sizes(T)
  <2>1. e.op # "read" /\ e.count <= e.after[1]
    BY <1>3
  <2> QED BY <1>2, <2>1 DEF Sizes
<1> QED BY <1>8, <1>9, <1>10 DEF Restorable, T

LEMMA VirtualSteps ==
  ASSUME LedgerInv, NEW ep \in Epoch
  PROVE  /\ SameEpoch(cursor, ep) =>
              cursor # NoCursor /\ Virtual(ep) = [cursor EXCEPT !.v = 3]
         /\ ~SameEpoch(cursor, ep) => Virtual(ep) = FirstCursor(ep)
<1>1. SameEpoch(cursor, ep) => cursor # NoCursor /\ cursor.v # 1
  BY DEF SameEpoch, LedgerInv, Ledger
<1> QED BY <1>1 DEF Virtual, Migrated

(* A claim goes on from the cursor c, of its turn, to d and s. *)
Continues(c, d, s, ct, h) ==
    /\ d.gen = c.gen /\ d.pending = c.pending /\ d.cov \subseteq c.cov
    /\ d.informed \in {c.informed, 0}
    /\ \/ s = <<>> /\ d.last = c.last
       \/ s = <<>> /\ d.last = 0 /\ h.op = "stop" /\ Claude
       \/ s # <<>> /\ d.last = ct /\ s[1].before = <<c.high, c.last>>

LEMMA ClaimContinues ==
  ASSUME LedgerInv, NEW ep \in Epoch, NEW sc \in ScanType, NEW t \in Nat, NEW h,
         h.op \in {"prompt", "tool", "stop"}
  PROVE  LET c == Establish(Virtual(ep), h) IN
         Continues(c, Claim(h, ep, sc, t).cursor, Claim(h, ep, sc, t).sent, TurnOf(c, t), h)
<1> DEFINE v == Virtual(ep)
           c0 == Establish(v, h)
           ct == TurnOf(c0, t)
           count == Cardinality(Unread(c0, sc))
           c1 == Attributed(c0, h, ep, count, ct)
           sameTurn == ct \in {c1.last, c1.informed}
           c2 == Retire(c1, h, sameTurn)
           due == ~Latched(h, c2) /\ Due(h, c2, count, sameTurn)
           c3 == IF Latched(h, c2) THEN c2 ELSE Collapse(c2, sc)
           high == IF count > c3.high THEN count ELSE c3.high
           c4 == IF due
                 THEN [c3 EXCEPT !.stop = IF h.op = "stop" THEN c3.rev ELSE @,
                                 !.high = high, !.last = ct]
                 ELSE IF ~Latched(h, c2) /\ count = 0 /\ ~Incomplete(c2, sc)
                 THEN [c3 EXCEPT !.outside = FALSE]
                 ELSE c3
           told == [op |-> h.op, ws |-> ep.ws, from |-> ep.from, rev |-> c4.rev,
                    count |-> count, turn |-> ct, stage |-> "claimed",
                    before |-> <<c1.high, c1.last>>, after |-> <<high, ct>>]
<1>1. /\ Claim(h, ep, sc, t).cursor = c4
      /\ Claim(h, ep, sc, t).sent = IF ~due THEN <<>> ELSE <<told>>
  BY DEF Claim
<1>2. /\ CursorInv /\ v \in Cursor
      /\ SameEpoch(cursor, ep) => cursor.v # 1
  <2>1. CursorInv /\ (SameEpoch(cursor, ep) => cursor.v # 1)
    BY DEF LedgerInv, CursorInv, Ledger, SameEpoch
  <2> QED BY <2>1, VirtualProperties
<1> HIDE DEF v
<1>3. c0 \in Cursor
  BY <1>2, EstablishProperties
<1>4. c1 = c0
  BY <1>2 DEF Attributed
<1> HIDE DEF c0, ct, count, c1
<1>5. /\ c2 \in Cursor /\ c2.gen = c0.gen /\ c2.pending = c0.pending /\ c2.cov = c0.cov
      /\ c2.informed \in {c0.informed, 0}
      /\ c2.last = c0.last \/ (c2.last = 0 /\ h.op = "stop" /\ Claude)
  BY <1>3, <1>4 DEF Retire, Cursor
<1> HIDE DEF c2, sameTurn
<1>6. /\ c3.gen = c0.gen /\ c3.pending = c0.pending /\ c3.cov \subseteq c0.cov
      /\ c3.informed = c2.informed /\ c3.last = c2.last
      /\ DOMAIN c3 = DOMAIN c2
  <2>1. CASE Latched(h, c2)
    BY <1>5, <2>1
  <2>2. CASE ~Latched(h, c2)
    <3> DEFINE pos == [f \in Feeds |-> Prefix(c2, sc, f)]
               cov == {b \in c2.cov : b[2] > pos[b[1]]}
    <3>1. c3 = [c2 EXCEPT !.pos = pos, !.cov = cov]
      BY <2>2 DEF Collapse
    <3>2. cov \subseteq c2.cov
      OBVIOUS
    <3> HIDE DEF pos, cov, c3
    <3> QED BY <1>5, <3>1, <3>2 DEF Cursor
  <2> QED BY <2>1, <2>2
<1>7. {"gen", "pending", "cov", "informed", "last", "stop", "high", "outside"} \subseteq DOMAIN c2
  BY <1>5 DEF Cursor
<1>8. told.before = <<c0.high, c0.last>>
  BY <1>4
<1>9. CASE ~due
  <2>1. c4 \in {c3, [c3 EXCEPT !.outside = FALSE]}
    BY <1>9
  <2> HIDE DEF c3, c4, due, told
  <2>2. /\ c4.gen = c3.gen /\ c4.pending = c3.pending /\ c4.cov = c3.cov
        /\ c4.informed = c3.informed /\ c4.last = c3.last
    BY <1>6, <1>7, <2>1
  <2>3. Claim(h, ep, sc, t).sent = <<>>
    BY <1>1, <1>9
  <2> QED BY <1>1, <1>5, <1>6, <2>2, <2>3 DEF Continues, c0, v
<1>10. CASE due
  <2> DEFINE s == IF h.op = "stop" THEN c3.rev ELSE c3.stop
  <2>1. c4 = [c3 EXCEPT !.stop = s, !.high = high, !.last = ct]
    BY <1>10
  <2> HIDE DEF c3, c4, due, told, high, s
  <2>2. /\ c4.gen = c3.gen /\ c4.pending = c3.pending /\ c4.cov = c3.cov
        /\ c4.informed = c3.informed /\ c4.last = ct
    BY <1>6, <1>7, <2>1
  <2>3. Claim(h, ep, sc, t).sent = <<told>>
    BY <1>1, <1>10
  <2>4. <<told>> # <<>> /\ <<told>>[1] = told
    OBVIOUS
  <2> QED BY <1>1, <1>5, <1>6, <1>8, <2>2, <2>3, <2>4 DEF Continues, c0, v, ct
<1> QED BY <1>9, <1>10

-----------------------------------------------------------------------------
(* Both *)

LEMMA EntriesSubset ==
  ASSUME Types, NEW A \in SUBSET Bits, NEW B \in SUBSET A
  PROVE  Entries(A) \in Nat /\ Entries(B) \in Nat /\ Entries(B) <= Entries(A)
<1> DEFINE E(C) == {<<b[1], b[2], b[3]>> : b \in C}
<1>1. IsFiniteSet(scene.feeds \X (1 .. MaxRecords) \X Fields)
  <2>1. 1 \in Int /\ MaxRecords \in Int
    BY NudgeAssumption
  <2>2. IsFiniteSet(1 .. MaxRecords)
    BY <2>1, FS_Interval
  <2>3. IsFiniteSet(scene.feeds)
    BY SceneFacts, NudgeAssumption, FS_Subset
  <2>4. IsFiniteSet(Fields)
    <3>1. IsFiniteSet({"record"}) /\ IsFiniteSet({"attention"})
      BY FS_Singleton
    <3>2. Fields = {"record"} \union {"attention"}
      BY DEF Fields
    <3> QED BY <3>1, <3>2, FS_Union
  <2>5. IsFiniteSet((scene.feeds \X (1 .. MaxRecords)) \X Fields)
    BY <2>2, <2>3, <2>4, FS_Product
  <2> DEFINE P == (scene.feeds \X (1 .. MaxRecords)) \X Fields
             T == scene.feeds \X (1 .. MaxRecords) \X Fields
             g == [p \in P |-> <<p[1][1], p[1][2], p[2]>>]
  <2>6. g \in Surjection(P, T)
    <3>1. g \in [P -> T]
      OBVIOUS
    <3>2. ASSUME NEW x \in T PROVE \E p \in P : g[p] = x
      <4>1. <<<<x[1], x[2]>>, x[3]>> \in P
        OBVIOUS
      <4>2. g[<<<<x[1], x[2]>>, x[3]>>] = x
        BY <4>1
      <4> QED BY <4>1, <4>2
    <3> QED BY <3>1, <3>2 DEF Surjection
  <2> QED BY <2>5, <2>6, FS_Surjection
<1>2. \A b \in Bits : <<b[1], b[2], b[3]>> \in scene.feeds \X (1 .. MaxRecords) \X Fields
  BY DEF Bits
<1>3. E(A) \subseteq scene.feeds \X (1 .. MaxRecords) \X Fields /\ E(B) \subseteq E(A)
  BY <1>2
<1>4. IsFiniteSet(E(A)) /\ IsFiniteSet(E(B))
  BY <1>1, <1>3, FS_Subset
<1>5. /\ Cardinality(E(A)) \in Nat /\ Cardinality(E(B)) \in Nat
      /\ Cardinality(E(B)) <= Cardinality(E(A))
  BY <1>3, <1>4, FS_Subset, FS_CardinalityType
<1> QED BY <1>5 DEF Entries

LEMMA BackedSame ==
  ASSUME NEW S, NEW c, NEW d, Backed(S, c), d.rev = c.rev, d.stop = c.stop,
         d.high = c.high, d.ws = c.ws, d.from = c.from,
         d.last = c.last \/ \A i \in DOMAIN S : ~Revocable(S[i])
  PROVE  Backed(S, d)
BY DEF Backed

LEMMA BackedFresh ==
  ASSUME NEW S, NEW d, Unmarked(d), \A i \in DOMAIN S : S[i].rev # d.rev
  PROVE  Backed(S, d)
BY DEF Backed, Unmarked

LEMMA NothingRead ==
  /\ Entries({}) = 0
  /\ IsFiniteSet({}) /\ Cardinality({}) = 0
<1>1. IsFiniteSet({}) /\ Cardinality({}) = 0
  BY FS_EmptySet
<1>2. {<<b[1], b[2], b[3]>> : b \in {}} = {}
  OBVIOUS
<1> QED BY <1>1, <1>2 DEF Entries

LEMMA FirstSane ==
  ASSUME Types, NEW ep, Rev \in Nat, cursor # NoCursor => cursor.v = 1 \/ cursor.gen > 0
  PROVE  Sane(FirstCursor(ep))
<1> DEFINE c == FirstCursor(ep)
<1>1. /\ c.rev = Rev + 1 /\ c.stop = 0 /\ c.last = 0 /\ c.informed = 0
      /\ c.pending = {} /\ c.cov = {}
      /\ c.gen = IF cursor = NoCursor \/ cursor.v = 1 THEN 1 ELSE cursor.gen
  BY DEF FirstCursor
<1> HIDE DEF c
<1>2. c.gen > 0 /\ 0 <= c.gen
  <2>1. cursor \in Cursor \union {NoCursor}
    BY DEF Types
  <2>2. cursor # NoCursor => cursor.gen \in Nat
    BY <2>1 DEF Cursor
  <2> QED BY <1>1, <2>2
<1>3. MaxPending \in Nat /\ MaxCoverage \in Nat
  BY NudgeAssumption
<1>4. DecodesPending(c)
  BY <1>1, <1>3, NothingRead DEF DecodesPending
<1>5. Sane(c)
  BY <1>1, <1>2, <1>3, <1>4, NothingRead DEF Sane
<1> QED BY <1>5 DEF c

LEMMA VirtualProper ==
  ASSUME FileInv, NEW ep \in Epoch
  PROVE  Proper(sent, Virtual(ep))
<1> DEFINE v == Virtual(ep)
<1>1. /\ LedgerInv /\ CursorInv /\ Types /\ sent \in Seq(Entry)
      /\ cursor # NoCursor => Proper(sent, cursor) /\ cursor \in Cursor /\ cursor.v # 1
  BY DEF FileInv, CountInv, LedgerInv, CursorInv, Types, Entry, Ledger
<1>2. CASE SameEpoch(cursor, ep)
  <2>1. cursor # NoCursor /\ v = [cursor EXCEPT !.v = 3]
    BY <1>1, <1>2, VirtualSteps
  <2> HIDE DEF v
  <2>2. \A x \in DOMAIN cursor \ {"v"} : v[x] = cursor[x]
    BY <2>1
  <2>3. /\ v.rev = cursor.rev /\ v.stop = cursor.stop /\ v.high = cursor.high
        /\ v.last = cursor.last /\ v.ws = cursor.ws /\ v.from = cursor.from
        /\ v.gen = cursor.gen /\ v.informed = cursor.informed
        /\ v.pending = cursor.pending /\ v.cov = cursor.cov
    BY <1>1, <2>1 DEF Cursor
  <2>4. Backed(sent, v)
    BY <1>1, <2>1, <2>3, BackedSame DEF Proper
  <2>5. Sane(v) /\ SaneMarks(sent, v)
    BY <1>1, <2>1, <2>3 DEF Proper, Sane, SaneMarks, DecodesPending
  <2> QED BY <1>1, <2>1, <2>4, <2>5 DEF Proper, v
<1>3. CASE ~SameEpoch(cursor, ep)
  <2>1. v = FirstCursor(ep) /\ Unmarked(v) /\ v \in Cursor
    BY <1>1, <1>3, VirtualSteps, VirtualMarks, VirtualProperties
  <2>2. \A i \in DOMAIN sent : sent[i].rev # v.rev
    <3>1. ASSUME NEW i \in DOMAIN sent PROVE sent[i].rev # v.rev
      <4>1. sent[i].rev < v.rev /\ sent[i].rev \in Nat /\ v.rev \in Nat
        BY <1>1, <1>3, <2>1, VirtualBooks, EntryTypes DEF Cursor
      <4> QED BY <4>1
    <3> QED BY <3>1
  <2>3. Sane(v)
    <3>1. Rev \in Nat
      BY <1>1 DEF Rev, Cursor
    <3>2. cursor # NoCursor => cursor.v = 1 \/ cursor.gen > 0
      BY <1>1 DEF Proper, Sane
    <3> QED BY <1>1, <2>1, <3>1, <3>2, FirstSane
  <2>4. Backed(sent, v)
    BY <2>1, <2>2, BackedFresh
  <2>5. CASE cursor = NoCursor
    <3>1. sent = <<>>
      BY <1>1, <2>5 DEF LedgerInv, Ledger
    <3> QED BY <2>3, <2>4, <3>1 DEF Proper, Restorable, Sizes, SaneMarks
  <2>6. CASE cursor # NoCursor
    <3>1. v.gen = cursor.gen
      BY <1>1, <2>1, <2>6 DEF FirstCursor
    <3>2. SaneMarks(sent, v)
      BY <1>1, <2>6, <3>1 DEF Proper, SaneMarks
    <3> QED BY <1>1, <2>3, <2>4, <2>6, <3>2 DEF Proper
  <2> QED BY <2>5, <2>6
<1> QED BY <1>2, <1>3

(* Reservations of earlier turns stay good when the generation grows. *)
LEMMA PendingLater ==
  ASSUME NEW c \in Cursor, NEW d \in Cursor, d.pending \subseteq c.pending, c.gen <= d.gen,
         IsFiniteSet(c.pending), DecodesPending(c)
  PROVE  IsFiniteSet(d.pending) /\ DecodesPending(d)
<1>1. /\ IsFiniteSet(d.pending) /\ Cardinality(d.pending) <= Cardinality(c.pending)
      /\ Cardinality(d.pending) \in Nat /\ Cardinality(c.pending) \in Nat
  BY FS_Subset, FS_CardinalityType
<1>2. /\ Cardinality(c.pending) <= MaxPending
      /\ \A p, q \in c.pending : p = q \/ (p.tool # q.tool /\ p.nonce # q.nonce)
      /\ Claude => \A p \in c.pending : p.turn \in 1 .. c.gen
  BY DEF DecodesPending
<1>3. Cardinality(d.pending) <= MaxPending /\ MaxPending \in Nat
  BY <1>1, <1>2, NudgeAssumption
<1>4. c.gen \in Nat /\ d.gen \in Nat
  BY DEF Cursor
<1>5. Claude => \A p \in d.pending : p.turn \in 1 .. d.gen
  BY <1>2, <1>4
<1> QED BY <1>1, <1>2, <1>3, <1>5 DEF DecodesPending

LEMMA EstablishSane ==
  ASSUME CursorInv, NEW c \in Cursor, NEW h, Sane(c)
  PROVE  Sane(Establish(c, h)) /\ c.gen <= Establish(c, h).gen
<1> DEFINE d == Establish(c, h)
<1>1. /\ c.gen \in Nat /\ c.last \in Nat /\ c.informed \in Nat
      /\ d \in Cursor /\ SameMarks(c, d) /\ SameRead(c, d) /\ d.pending = c.pending
  BY EstablishProperties, EstablishMarks DEF Cursor
<1>2. /\ c.gen <= d.gen
      /\ d.last > 0 => c.last > 0
      /\ Claude => d.last <= d.gen /\ d.informed <= d.gen
  <2>1. CASE ~Claude \/ h.op # "prompt" \/ cursor = NoCursor
    <3>1. d = c
      BY <2>1 DEF Establish
    <3> QED BY <1>1, <3>1 DEF Sane
  <2>2. CASE ~(~Claude \/ h.op # "prompt" \/ cursor = NoCursor)
    <3> DEFINE carry == h.flag /\ SameEpoch(cursor, c) /\ cursor.v = 3
               i == IF carry /\ c.informed = c.gen THEN c.gen + 1 ELSE c.informed
               l == IF carry /\ c.last = c.gen THEN c.gen + 1 ELSE c.last
    <3>1. d = [c EXCEPT !.gen = c.gen + 1, !.informed = i, !.last = l]
      BY <2>2 DEF Establish, Cursor
    <3>2. /\ i \in {c.gen + 1, c.informed} /\ l \in {c.gen + 1, c.last}
          /\ l # c.last => c.last = c.gen
      OBVIOUS
    <3> HIDE DEF i, l, d
    <3>3. d.gen = c.gen + 1 /\ d.informed = i /\ d.last = l
      BY <3>1 DEF Cursor
    <3>4. c.gen > 0 /\ (Claude => c.last <= c.gen /\ c.informed <= c.gen)
      BY DEF Sane
    <3>5. (Claude => d.last <= d.gen /\ d.informed <= d.gen) /\ c.gen <= d.gen
      BY <1>1, <3>2, <3>3, <3>4
    <3>6. d.last > 0 => c.last > 0
      BY <1>1, <3>2, <3>3, <3>4
    <3> QED BY <3>5, <3>6
  <2> QED BY <2>1, <2>2
<1> HIDE DEF d
<1>3. IsFiniteSet(d.pending) /\ DecodesPending(d)
  BY <1>1, <1>2, PendingLater DEF Sane
<1>4. d.gen > 0
  BY <1>1, <1>2 DEF Sane, Cursor
<1>5. Sane(d)
  BY <1>1, <1>2, <1>3, <1>4 DEF Sane, SameMarks, SameRead
<1> QED BY <1>2, <1>5 DEF d

LEMMA ClaimSane ==
  ASSUME FileInv, NEW ep \in Epoch, NEW sc \in ScanType, NEW t \in Nat, NEW h,
         h.op \in {"prompt", "tool", "stop"},
         \A f \in Feeds : Virtual(ep).pos[f] <= sc.len[f] /\ sc.len[f] <= Len(feed[f])
  PROVE  LET v == Virtual(ep)
             d == Claim(h, ep, sc, t).cursor
             s == Claim(h, ep, sc, t).sent
         IN /\ Sane(d) /\ SaneMarks(sent, d)
            /\ s # <<>> => /\ s[1].before[2] > 0 => s[1].before[1] > 0
                           /\ Claude => s[1].before[2] <= d.gen
            /\ s = <<>> /\ (~Claude \/ h.op = "tool") => d.last = v.last
<1> DEFINE v == Virtual(ep)
           c == Establish(v, h)
           ct == TurnOf(c, t)
           d == Claim(h, ep, sc, t).cursor
           s == Claim(h, ep, sc, t).sent
<1>1. /\ LedgerInv /\ CursorInv /\ Types /\ v \in Cursor
      /\ Sane(v) /\ SaneMarks(sent, v) /\ sent \in Seq(Entry)
  BY VirtualProperties, VirtualProper DEF FileInv, CountInv, LedgerInv, CursorInv, Types, Entry, Proper
<1>2. d \in Cursor
  BY <1>1, ClaimProperties
<1>3. \/ s = <<>> /\ SameMarks(v, d)
      \/ \E e : s = <<e>> /\ Claimed(v, d, e, h, ep, t)
  BY <1>1, ClaimMarks
<1>4. Continues(c, d, s, ct, h)
  BY <1>1, ClaimContinues
<1>5. c \in Cursor /\ SameMarks(v, c) /\ SameRead(v, c) /\ Sane(c) /\ v.gen <= c.gen
  BY <1>1, EstablishProperties, EstablishMarks, EstablishSane
<1>6. ~Claude \/ h.op = "tool" => c = v
  BY DEF Establish
<1>7. Claude => ct = c.gen
  BY DEF TurnOf
<1> HIDE DEF v, c, ct, d, s
<1>8. /\ d.rev = c.rev /\ d.stop \in {c.stop, c.rev} /\ d.high >= c.high
      /\ s # <<>> => d.high > 0
  <2>1. c.rev = v.rev /\ c.stop = v.stop /\ c.high = v.high /\ c.high \in Nat
    BY <1>5 DEF SameMarks, Cursor
  <2>2. CASE s = <<>> /\ SameMarks(v, d)
    BY <2>1, <2>2 DEF SameMarks
  <2>3. CASE \E e : s = <<e>> /\ Claimed(v, d, e, h, ep, t)
    <3>1. PICK e : s = <<e>> /\ Claimed(v, d, e, h, ep, t)
      BY <2>3
    <3>2. e.count \in Nat /\ d.high \in Nat
      BY <1>2, <3>1 DEF Claimed, Delivery, Cursor
    <3> QED BY <2>1, <3>1, <3>2 DEF Claimed
  <2> QED BY <1>3, <2>2, <2>3
<1>9. /\ d.gen = c.gen /\ d.pending = c.pending /\ d.cov \subseteq c.cov
      /\ d.informed \in {c.informed, 0} /\ d.last \in {c.last, 0, ct}
      /\ s = <<>> => d.last \in {c.last, 0}
  BY <1>4 DEF Continues
<1>10. /\ c.gen \in Nat /\ c.last \in Nat /\ c.informed \in Nat /\ c.high \in Nat
       /\ d.high \in Nat
  BY <1>2, <1>5 DEF Cursor
<1>11. Sane(d)
  <2>1. IsFiniteSet(d.pending) /\ DecodesPending(d)
    BY <1>2, <1>5, <1>9, <1>10, PendingLater DEF Sane
  <2>2. Entries(d.cov) <= MaxCoverage
    <3>1. c.cov \in SUBSET Bits
      BY <1>5 DEF Cursor
    <3>2. Entries(c.cov) \in Nat /\ Entries(d.cov) \in Nat /\ Entries(d.cov) <= Entries(c.cov)
      BY <1>1, <1>9, <3>1, EntriesSubset
    <3> QED BY <1>5, <3>2, NudgeAssumption DEF Sane
  <2>3. d.last > 0 => d.high > 0
    BY <1>5, <1>8, <1>9, <1>10 DEF Sane
  <2>4. Claude => d.last <= d.gen /\ d.informed <= d.gen
    BY <1>5, <1>7, <1>9, <1>10 DEF Sane
  <2> QED BY <1>5, <1>8, <1>9, <2>1, <2>2, <2>3, <2>4 DEF Sane
<1>12. SaneMarks(sent, d)
  <2> SUFFICES ASSUME NEW i \in DOMAIN sent, Revocable(sent[i])
               PROVE  /\ sent[i].before[2] > 0 => sent[i].before[1] > 0
                      /\ Claude => sent[i].before[2] <= d.gen
    BY DEF SaneMarks
  <2>1. sent[i] \in Entry /\ sent[i].op # "read"
    BY <1>1 DEF Revocable
  <2>2. sent[i].before[2] \in Nat /\ v.gen \in Nat
    BY <1>1, <2>1, EntryTypes DEF Cursor
  <2> QED BY <1>1, <1>5, <1>9, <1>10, <2>2 DEF SaneMarks
<1>13. ASSUME s # <<>>
       PROVE  /\ s[1].before[2] > 0 => s[1].before[1] > 0
              /\ Claude => s[1].before[2] <= d.gen
  <2>1. s[1].before = <<c.high, c.last>>
    BY <1>4, <1>13 DEF Continues
  <2> QED BY <1>5, <1>9, <2>1 DEF Sane
<1>14. s = <<>> /\ (~Claude \/ h.op = "tool") => d.last = v.last
  BY <1>4, <1>6 DEF Continues
<1> QED BY <1>11, <1>12, <1>13, <1>14 DEF v, d, s

-----------------------------------------------------------------------------
(* Steps of the transactions *)

LEMMA ProperStays ==
  ASSUME UNCHANGED scene, NEW S, NEW d, Proper(S, d)
  PROVE  Proper(S, d)'
<1>1. Claude' = Claude
  BY DEF Claude
<1>2. Sane(d)' <=> Sane(d)
  BY <1>1 DEF Sane, DecodesPending
<1>3. SaneMarks(S, d)' <=> SaneMarks(S, d)
  BY <1>1 DEF SaneMarks
<1> QED BY <1>2, <1>3 DEF Proper

(* A hook wrote the cursor d and the deliveries S. *)
LEMMA FileWritten ==
  ASSUME CountInv', UNCHANGED scene, txn' = NoTxn, nonces' <= scene.nonces,
         NEW d, cursor' = d, NEW S, sent' = S, Proper(S, d)
  PROVE  FileInv'
<1>1. Proper(S, d)'
  BY ProperStays
<1> QED BY <1>1 DEF FileInv, StopsAlone, Budget

LEMMA WriteClaimFile ==
  ASSUME FileInv, WriteClaim
  PROVE  FileInv'
<1>1. /\ UNCHANGED <<scene, nonces>> /\ txn' = NoTxn /\ txn # NoTxn
      /\ txn.hook.op \in {"prompt", "tool", "stop"}
  BY DEF WriteClaim, Informational
<1> DEFINE h == txn.hook
           ep == txn.epoch
           sc == txn.scan
           t == txn.turn
           c == Claim(h, ep, sc, t)
           v == Virtual(ep)
<1>2. cursor' = c.cursor /\ sent' = sent \o c.sent
  BY DEF WriteClaim
<1>3. /\ CountInv /\ LedgerInv /\ CursorInv /\ Types /\ ep \in Epoch /\ sc \in ScanType
      /\ t \in Nat /\ sent \in Seq(Entry) /\ h.op \in {"prompt", "tool", "stop"}
  BY <1>1 DEF FileInv, CountInv, LedgerInv, CursorInv, Types, Txn, Entry
<1>4. CountInv' /\ nonces' <= scene.nonces
  BY <1>1, <1>3, WriteClaimCounts DEF FileInv, Budget
<1>5. \A f \in Feeds : v.pos[f] <= sc.len[f] /\ sc.len[f] <= Len(feed[f])
  <2>1. /\ \A f \in Feeds : sc.len[f] <= Len(feed[f]) /\ sc.len[f] \in Nat
        /\ cursor # NoCursor => \A f \in Feeds : cursor.pos[f] <= sc.len[f]
    BY <1>1, <1>3 DEF CursorInv, ScanCurrent, ScanType
  <2>2. \/ cursor # NoCursor /\ v.pos = cursor.pos
        \/ \A f \in Feeds : v.pos[f] = 0
    BY <1>3, VirtualProperties
  <2> QED BY <2>1, <2>2
<1>6. \/ c.sent = <<>> /\ SameMarks(v, c.cursor)
      \/ \E e : c.sent = <<e>> /\ Claimed(v, c.cursor, e, h, ep, t)
  BY <1>1, <1>3, ClaimMarks
<1>7. /\ Sane(c.cursor) /\ SaneMarks(sent, c.cursor)
      /\ c.sent # <<>> => /\ c.sent[1].before[2] > 0 => c.sent[1].before[1] > 0
                          /\ Claude => c.sent[1].before[2] <= c.cursor.gen
      /\ c.sent = <<>> /\ (~Claude \/ h.op = "tool") => c.cursor.last = v.last
  BY <1>3, <1>5, ClaimSane
<1>8. /\ c.cursor \in Cursor /\ v \in Cursor /\ v.ws = ep.ws /\ v.from = ep.from
      /\ c.cursor.ws = ep.ws /\ c.cursor.from = ep.from
  BY <1>3, <1>5, ClaimProperties, VirtualProperties
<1>9. Proper(sent, v)
  BY <1>3, VirtualProper
<1>10. \A i \in DOMAIN sent : Booked(sent[i], v)
  BY <1>3, VirtualBooks
<1>11. \/ ~Claude \/ h.op = "tool"
       \/ \A i \in DOMAIN sent : ~Revocable(sent[i])
  <2> SUFFICES ASSUME Claude, h.op # "tool", NEW i \in DOMAIN sent, Revocable(sent[i])
               PROVE  FALSE
    OBVIOUS
  <2>1. StopHeld
    BY DEF StopHeld, Held, Revocable
  <2> QED BY <1>1, <2>1 DEF FileInv, StopsAlone
<1> HIDE DEF h, ep, sc, t, c, v
<1>12. PICK d \in Cursor : cursor' = d /\ d = c.cursor
  BY <1>2, <1>8
<1>13. CASE c.sent = <<>> /\ SameMarks(v, d)
  <2>1. sent' = sent
    BY <1>2, <1>3, <1>13
  <2>2. Backed(sent, d)
    BY <1>7, <1>8, <1>9, <1>11, <1>12, <1>13, BackedSame DEF Proper, SameMarks
  <2>3. Proper(sent, d)
    BY <1>7, <1>9, <1>12, <2>2 DEF Proper
  <2>4. PICK S : S = sent
    OBVIOUS
  <2> QED BY <1>1, <1>4, <1>12, <2>1, <2>3, <2>4, FileWritten
<1>14. CASE \E e : c.sent = <<e>> /\ Claimed(v, d, e, h, ep, t)
  <2>1. PICK e : c.sent = <<e>> /\ Claimed(v, d, e, h, ep, t)
    BY <1>14
  <2>2. e \in Entry /\ c.sent # <<>> /\ c.sent[1] = e
    BY <2>1 DEF Claimed, Entry
  <2>3. sent' = Append(sent, e)
    BY <1>2, <1>3, <2>1, <2>2
  <2>4. \A i \in DOMAIN sent : Booked(sent[i], v) /\ Pair(sent[i], e)
    <3> SUFFICES ASSUME NEW i \in DOMAIN sent PROVE Pair(sent[i], e)
      BY <1>10
    <3>1. sent[i] \in Entry /\ Booked(sent[i], v)
      BY <1>3, <1>10
    <3> QED BY <1>3, <1>8, <1>10, <2>1, <3>1, ClaimedAfter
  <2> DEFINE S == Append(sent, e)
  <2>5. Backed(S, d) /\ Restorable(S) /\ Sizes(S)
    BY <1>3, <1>8, <1>9, <1>12, <2>1, <2>4, BackedAppend DEF Proper
  <2>6. \A i \in DOMAIN S : S[i] = e \/ (i \in DOMAIN sent /\ S[i] = sent[i])
    BY <1>3, <2>2
  <2>7. sent' = S
    BY <2>3
  <2> HIDE DEF S
  <2>8. SaneMarks(S, d)
    BY <1>7, <1>12, <2>2, <2>6 DEF SaneMarks
  <2>9. Proper(S, d)
    BY <1>7, <1>12, <2>5, <2>8 DEF Proper
  <2> QED BY <1>1, <1>4, <1>12, <2>7, <2>9, FileWritten
<1> QED BY <1>6, <1>12, <1>13, <1>14

(* Reads and their reservations *)
LEMMA PendingSane ==
  ASSUME NEW c \in Cursor, Sane(c), NEW ps, IsFiniteSet(ps), Cardinality(ps) <= MaxPending,
         \A p, q \in ps : p = q \/ (p.tool # q.tool /\ p.nonce # q.nonce),
         Claude => \A p \in ps : p.turn \in 1 .. c.gen
  PROVE  LET d == [c EXCEPT !.pending = ps] IN
         Sane(d) /\ d.gen = c.gen /\ d.rev = c.rev /\ d.last = c.last
<1> DEFINE d == [c EXCEPT !.pending = ps]
<1>1. /\ d.pending = ps /\ d.gen = c.gen /\ d.rev = c.rev /\ d.last = c.last
      /\ d.stop = c.stop /\ d.high = c.high /\ d.informed = c.informed /\ d.cov = c.cov
  BY DEF Cursor
<1> HIDE DEF d
<1>2. DecodesPending(d)
  BY <1>1 DEF DecodesPending
<1> QED BY <1>1, <1>2 DEF Sane, d

LEMMA PendingFewer ==
  ASSUME NEW c \in Cursor, Sane(c), NEW ps \in SUBSET c.pending
  PROVE  LET d == [c EXCEPT !.pending = ps] IN
         Sane(d) /\ d.gen = c.gen /\ d.rev = c.rev /\ d.last = c.last
<1>1. /\ IsFiniteSet(c.pending) /\ Cardinality(c.pending) <= MaxPending
      /\ \A p, q \in c.pending : p = q \/ (p.tool # q.tool /\ p.nonce # q.nonce)
      /\ Claude => \A p \in c.pending : p.turn \in 1 .. c.gen
  BY DEF Sane, DecodesPending
<1>2. /\ IsFiniteSet(ps) /\ Cardinality(ps) <= Cardinality(c.pending)
      /\ Cardinality(ps) \in Nat /\ Cardinality(c.pending) \in Nat
  BY <1>1, FS_Subset, FS_CardinalityType
<1>3. Cardinality(ps) <= MaxPending
  BY <1>1, <1>2, NudgeAssumption
<1> QED BY <1>1, <1>2, <1>3, PendingSane

(* A reservation replaced by its next state. *)
LEMMA PendingReplaced ==
  ASSUME NEW c \in Cursor, Sane(c), NEW p \in c.pending, NEW q,
         q.tool = p.tool, q.nonce = p.nonce, q.turn = p.turn
  PROVE  LET d == [c EXCEPT !.pending = (c.pending \ {p}) \union {q}] IN
         Sane(d) /\ d.gen = c.gen /\ d.rev = c.rev /\ d.last = c.last
<1> DEFINE ps == (c.pending \ {p}) \union {q}
<1>1. /\ IsFiniteSet(c.pending) /\ Cardinality(c.pending) <= MaxPending
      /\ \A x, y \in c.pending : x = y \/ (x.tool # y.tool /\ x.nonce # y.nonce)
      /\ Claude => \A x \in c.pending : x.turn \in 1 .. c.gen
  BY DEF Sane, DecodesPending
<1>2. /\ IsFiniteSet(c.pending \ {p}) /\ Cardinality(c.pending \ {p}) = Cardinality(c.pending) - 1
      /\ Cardinality(c.pending) \in Nat /\ Cardinality(c.pending \ {p}) \in Nat
  BY <1>1, FS_RemoveElement, FS_CardinalityType
<1>3. IsFiniteSet(ps) /\ Cardinality(ps) <= MaxPending
  <2>1. /\ IsFiniteSet(ps)
        /\ Cardinality(ps) \in {Cardinality(c.pending \ {p}), Cardinality(c.pending \ {p}) + 1}
    BY <1>2, FS_AddElement
  <2> QED BY <1>1, <1>2, <2>1, NudgeAssumption
<1>4. \A x, y \in ps : x = y \/ (x.tool # y.tool /\ x.nonce # y.nonce)
  BY <1>1
<1>5. Claude => \A x \in ps : x.turn \in 1 .. c.gen
  BY <1>1
<1> HIDE DEF ps
<1>6. LET d == [c EXCEPT !.pending = ps] IN
      Sane(d) /\ d.gen = c.gen /\ d.rev = c.rev /\ d.last = c.last
  BY <1>3, <1>4, <1>5, PendingSane
<1> QED BY <1>6 DEF ps

LEMMA ReserveSane ==
  ASSUME NEW c \in Cursor, Good(c), Sane(c), nonces \in Nat, NEW h, NEW t,
         NEW d \in Reserve(c, h, t)
  PROVE  Sane(d) /\ d.gen = c.gen /\ d.rev = c.rev /\ d.last = c.last
<1> DEFINE live == {p \in c.pending : p.live}
           q == [tool |-> h.tool, nonce |-> nonces + 1, turn |-> TurnOf(c, t),
                 live |-> TRUE, text |-> {}]
           ps == live \union {q}
<1>1. /\ d = [c EXCEPT !.pending = ps]
      /\ \A p \in live : p.tool # h.tool
      /\ ~(Cardinality(live) >= MaxPending)
  BY DEF Reserve, AddPending
<1>2. q.tool = h.tool /\ q.nonce = nonces + 1 /\ q.turn = TurnOf(c, t)
  OBVIOUS
<1> HIDE DEF q
<1>3. /\ IsFiniteSet(c.pending)
      /\ \A x, y \in c.pending : x = y \/ (x.tool # y.tool /\ x.nonce # y.nonce)
      /\ Claude => \A x \in c.pending : x.turn \in 1 .. c.gen
  BY DEF Sane, DecodesPending
<1>4. IsFiniteSet(live) /\ Cardinality(live) \in Nat /\ live \subseteq c.pending
  BY <1>3, FS_Subset, FS_CardinalityType
<1> HIDE DEF live
<1>5. IsFiniteSet(ps) /\ Cardinality(ps) <= MaxPending
  <2>1. /\ IsFiniteSet(ps)
        /\ Cardinality(ps) \in {Cardinality(live), Cardinality(live) + 1}
    BY <1>4, FS_AddElement
  <2> QED BY <1>1, <1>4, <2>1, NudgeAssumption
<1>6. \A x \in live : x.tool # q.tool /\ x.nonce # q.nonce
  <2>1. \A x \in c.pending : x.nonce \in Nat /\ x.nonce <= nonces
    BY DEF Good, Reserved, Cursor, Pending
  <2> QED BY <1>1, <1>2, <1>4, <2>1
<1>7. \A x, y \in ps : x = y \/ (x.tool # y.tool /\ x.nonce # y.nonce)
  BY <1>3, <1>4, <1>6
<1>8. Claude => \A x \in ps : x.turn \in 1 .. c.gen
  <2>1. Claude => TurnOf(c, t) = c.gen
    BY DEF TurnOf
  <2>2. c.gen \in Nat /\ c.gen > 0
    BY DEF Sane, Cursor
  <2> QED BY <1>2, <1>3, <1>4, <2>1, <2>2
<1> HIDE DEF ps
<1> QED BY <1>1, <1>5, <1>7, <1>8, PendingSane

LEMMA CommitSane ==
  ASSUME Types, NEW c \in Cursor, Sane(c), NEW h, NEW sc, NEW t \in Nat,
         NEW d \in Commit(c, h, sc, t), d \in Cursor
  PROVE  Sane(d) /\ d.gen = c.gen /\ (d.rev = c.rev => d.last = c.last)
<1>1. PICK p \in Matching(c, h.tool, t) :
        LET pv == Preview(c, p.text, sc)
            n == [pv.cursor EXCEPT !.pending = @ \ {p}]
            left == Unread(n, sc) # {} \/ Incomplete(n, sc)
        IN \/ ~pv.advanced /\ d = n
           \/ d = [c EXCEPT !.pending = @ \ {p}]
           \/ /\ Fits(n.cov, c.cov, pv.recovery)
              /\ d = [Rearm(n, TurnOf(c, t)) EXCEPT
                           !.outside = left /\ (out[h.tool].kind = "context" \/ c.outside)]
  BY DEF Commit
<1> DEFINE pv == Preview(c, p.text, sc)
           n == [pv.cursor EXCEPT !.pending = @ \ {p}]
           left == Unread(n, sc) # {} \/ Incomplete(n, sc)
           outside == left /\ (out[h.tool].kind = "context" \/ c.outside)
<1>2. /\ DOMAIN c = {"ws", "from", "rev", "pos", "v", "stop", "high", "last", "pending",
                     "cov", "outside", "informed", "gen"}
      /\ c.gen \in Nat /\ c.cov \in SUBSET Bits /\ c.rev \in Nat
  BY DEF Cursor
<1>3. /\ DOMAIN pv.cursor = DOMAIN c
      /\ \A x \in DOMAIN c \ {"pos", "cov"} : pv.cursor[x] = c[x]
      /\ ~pv.advanced => pv.cursor.cov \subseteq c.cov
  BY <1>2, PreviewMarks
<1>4. \/ ~pv.advanced /\ d = n
      \/ d = [c EXCEPT !.pending = @ \ {p}]
      \/ Fits(n.cov, c.cov, pv.recovery) /\ d = [Rearm(n, TurnOf(c, t)) EXCEPT !.outside = outside]
  BY <1>1
<1> HIDE DEF pv, outside
<1>5. /\ DOMAIN n = DOMAIN c /\ n.pending = c.pending \ {p} /\ n.cov = pv.cursor.cov
      /\ n.gen = c.gen /\ n.rev = c.rev /\ n.last = c.last /\ n.stop = c.stop
      /\ n.high = c.high /\ n.informed = c.informed
  BY <1>2, <1>3
<1> HIDE DEF n
<1>6. CASE d = [c EXCEPT !.pending = @ \ {p}]
  <2>1. d = [c EXCEPT !.pending = c.pending \ {p}]
    BY <1>6
  <2> QED BY <2>1, PendingFewer
<1>7. CASE ~pv.advanced /\ d = n
  <2>1. Entries(d.cov) <= MaxCoverage
    <3>1. Entries(c.cov) \in Nat /\ Entries(d.cov) \in Nat /\ Entries(d.cov) <= Entries(c.cov)
      BY <1>2, <1>3, <1>5, <1>7, EntriesSubset
    <3> QED BY <3>1, NudgeAssumption DEF Sane
  <2>2. IsFiniteSet(d.pending) /\ DecodesPending(d)
    BY <1>2, <1>5, <1>7, PendingLater DEF Sane
  <2> QED BY <1>5, <1>7, <2>1, <2>2 DEF Sane
<1>8. CASE Fits(n.cov, c.cov, pv.recovery) /\ d = [Rearm(n, TurnOf(c, t)) EXCEPT !.outside = outside]
  <2>1. d = [n EXCEPT !.rev = n.rev + 1, !.stop = 0, !.high = 0, !.last = 0,
                      !.informed = TurnOf(c, t), !.outside = outside]
    BY <1>2, <1>5, <1>8 DEF Rearm
  <2>2. /\ d.rev = c.rev + 1 /\ d.stop = 0 /\ d.high = 0 /\ d.last = 0 /\ d.gen = c.gen
        /\ d.informed = TurnOf(c, t) /\ d.pending = c.pending \ {p} /\ d.cov = n.cov
    BY <1>2, <1>5, <2>1
  <2>3. Entries(d.cov) <= MaxCoverage
    BY <1>8, <2>2 DEF Fits
  <2>4. IsFiniteSet(d.pending) /\ DecodesPending(d)
    <3>1. d.pending \subseteq c.pending /\ c.gen <= d.gen
      BY <1>2, <2>2
    <3>2. IsFiniteSet(c.pending) /\ DecodesPending(c)
      BY DEF Sane
    <3> QED BY <3>1, <3>2, PendingLater
  <2>5. Claude => d.informed = d.gen
    BY <2>2 DEF TurnOf
  <2> QED BY <1>2, <2>2, <2>3, <2>4, <2>5 DEF Sane
<1> QED BY <1>4, <1>6, <1>7, <1>8

LEMMA ReadSane ==
  ASSUME Types, NEW ep \in Epoch, NEW sc, NEW t \in Nat,
         NEW h \in HookCalls, h.op \notin {"prompt", "tool", "stop"},
         Virtual(ep) \in Cursor, Good(Virtual(ep)), Sane(Virtual(ep)),
         NEW d \in ReadResult(h, ep, sc, t), d \in Cursor
  PROVE  /\ Sane(d) /\ d.gen = Virtual(ep).gen
         /\ d.rev = Virtual(ep).rev => d.last = Virtual(ep).last
<1> DEFINE c == Virtual(ep)
<1>1. h.op \in {"reserve", "stage", "commit", "discard"} /\ nonces \in Nat
  BY DEF HookCalls, Types
<1>2. CASE h.op = "reserve"
  <2>1. d \in Reserve(c, h, t)
    BY <1>2 DEF ReadResult
  <2> HIDE DEF c
  <2> QED BY <1>1, <2>1, ReserveSane DEF c
<1>3. CASE h.op = "stage"
  <2>1. PICK p \in c.pending :
          d = [c EXCEPT !.pending = (c.pending \ {p}) \union {[p EXCEPT !.text = out[h.tool].text]}]
    BY <1>3 DEF ReadResult, Stage, Matching
  <2> DEFINE q == [p EXCEPT !.text = out[h.tool].text]
  <2>2. q.tool = p.tool /\ q.nonce = p.nonce /\ q.turn = p.turn
    OBVIOUS
  <2>3. d = [c EXCEPT !.pending = (c.pending \ {p}) \union {q}]
    BY <2>1
  <2> HIDE DEF c, q
  <2> QED BY <2>2, <2>3, PendingReplaced DEF c
<1>4. CASE h.op = "discard"
  <2>1. d = [c EXCEPT !.pending = {p \in c.pending : p.tool # h.tool \/ p.turn # TurnOf(c, t)}]
    BY <1>4 DEF ReadResult, Discard
  <2> DEFINE ps == {p \in c.pending : p.tool # h.tool \/ p.turn # TurnOf(c, t)}
  <2>2. ps \in SUBSET c.pending /\ d = [c EXCEPT !.pending = ps]
    BY <2>1
  <2> HIDE DEF c, ps
  <2> QED BY <2>2, PendingFewer DEF c
<1>5. CASE h.op = "commit"
  <2>1. d \in Commit(c, h, sc, t)
    BY <1>5 DEF ReadResult
  <2> HIDE DEF c
  <2> QED BY <2>1, CommitSane DEF c
<1> QED BY <1>1, <1>2, <1>3, <1>4, <1>5

LEMMA WriteReadFile ==
  ASSUME FileInv, WriteRead
  PROVE  FileInv'
<1>1. /\ UNCHANGED scene /\ txn' = NoTxn /\ txn # NoTxn
      /\ txn.hook.op \notin {"prompt", "tool", "stop"}
      /\ nonces' = IF txn.hook.op = "reserve" THEN nonces + 1 ELSE nonces
  BY DEF WriteRead, Informational
<1> DEFINE h == txn.hook
           ep == txn.epoch
           sc == txn.scan
           t == txn.turn
           v == Virtual(ep)
           R == ReadResult(h, ep, sc, t)
<1>2. /\ CountInv /\ LedgerInv /\ CursorInv /\ Types /\ Nonces /\ ep \in Epoch
      /\ sc \in ScanType /\ t \in Nat /\ h \in HookCalls /\ sent \in Seq(Entry)
  BY <1>1 DEF FileInv, CountInv, LedgerInv, CursorInv, Types, Txn, Entry
<1>3. CountInv' /\ nonces' <= scene.nonces
  <2>1. nonces \in Nat /\ scene.nonces \in Nat
    BY <1>2, NudgeAssumption DEF Types, SceneType
  <2> QED BY <1>1, <1>2, <2>1, WriteReadCounts DEF FileInv, Budget
<1>4. Forgotten = sent
  <2>1. ~(cursor # NoCursor /\ cursor.v = 1)
    BY <1>2 DEF LedgerInv, Ledger
  <2>2. Forgotten = [i \in DOMAIN sent |-> sent[i]]
    BY <2>1 DEF Forgotten
  <2> QED BY <1>2, <2>2
<1>5. IF R = {} THEN UNCHANGED <<cursor, sent>>
      ELSE \E c \in R : /\ cursor' = c
                        /\ sent' = sent \o
                             IF c.rev = v.rev THEN <<>>
                             ELSE <<[op |-> "read", rev |-> c.rev, count |-> 0,
                                     turn |-> c.informed, stage |-> "emitted"]>>
  BY <1>4 DEF WriteRead
<1>6. v \in Cursor /\ Good(v) /\ Proper(sent, v) /\ v.ws = ep.ws /\ v.from = ep.from
  BY <1>2, VirtualProperties, VirtualProper
<1>7. \A f \in Feeds : v.pos[f] <= sc.len[f] /\ sc.len[f] <= Len(feed[f])
  <2>1. /\ \A f \in Feeds : sc.len[f] <= Len(feed[f]) /\ sc.len[f] \in Nat
        /\ cursor # NoCursor => \A f \in Feeds : cursor.pos[f] <= sc.len[f]
    BY <1>1, <1>2 DEF CursorInv, ScanCurrent, ScanType
  <2>2. \/ cursor # NoCursor /\ v.pos = cursor.pos
        \/ \A f \in Feeds : v.pos[f] = 0
    BY <1>2, VirtualProperties
  <2> QED BY <2>1, <2>2
<1>8. \A d \in R : d \in Cursor /\ d.ws = ep.ws /\ d.from = ep.from /\ ReadMarked(v, d, t)
  <2>1. \A d \in R : d \in Cursor /\ d.ws = v.ws /\ d.from = v.from
    BY <1>1, <1>2, <1>6, <1>7, ReadResultWrites DEF ReadWrites
  <2>2. \A d \in R : ReadMarked(v, d, t)
    BY <1>1, <1>2, <1>6, ReadMarks
  <2> QED BY <1>6, <2>1, <2>2
<1>9. \A d \in R : Sane(d) /\ d.gen = v.gen /\ (d.rev = v.rev => d.last = v.last)
  BY <1>1, <1>2, <1>6, <1>8, ReadSane DEF Proper
<1>10. \A i \in DOMAIN sent : sent[i].rev \in Nat /\ sent[i].rev <= v.rev
  BY <1>2, VirtualBooks, EntryTypes DEF Booked, Marked
<1> HIDE DEF h, ep, sc, t, v, R
<1>11. CASE R = {}
  <2>1. UNCHANGED <<cursor, sent>>
    BY <1>5, <1>11
  <2>2. CASE cursor = NoCursor
    BY <1>1, <1>3, <2>1, <2>2 DEF FileInv, StopsAlone, Budget
  <2>3. CASE cursor # NoCursor
    <3>1. Proper(sent, cursor)
      BY <2>3 DEF FileInv
    <3>2. PICK d, S : d = cursor /\ S = sent
      OBVIOUS
    <3> QED BY <1>1, <1>3, <2>1, <3>1, <3>2, FileWritten
  <2> QED BY <2>2, <2>3
<1>12. CASE R # {}
  <2>1. PICK d \in R : /\ cursor' = d
                       /\ sent' = sent \o
                             IF d.rev = v.rev THEN <<>>
                             ELSE <<[op |-> "read", rev |-> d.rev, count |-> 0,
                                     turn |-> d.informed, stage |-> "emitted"]>>
    BY <1>5, <1>12
  <2>2. /\ d \in Cursor /\ ReadMarked(v, d, t) /\ d.ws = v.ws /\ d.from = v.from
        /\ Sane(d) /\ d.gen = v.gen /\ (d.rev = v.rev => d.last = v.last)
    BY <1>6, <1>8, <1>9
  <2>3. SaneMarks(sent, d)
    BY <1>6, <2>2 DEF Proper, SaneMarks
  <2>4. CASE SameMarks(v, d)
    <3>1. d.rev = v.rev /\ sent' = sent
      BY <1>2, <2>1, <2>4 DEF SameMarks
    <3>2. Backed(sent, d)
      BY <1>6, <2>2, <2>4, <3>1, BackedSame DEF Proper, SameMarks
    <3>3. Proper(sent, d)
      BY <1>6, <2>2, <2>3, <3>2 DEF Proper
    <3>4. PICK S : S = sent
      OBVIOUS
    <3> QED BY <1>1, <1>3, <2>1, <3>1, <3>3, <3>4, FileWritten
  <2>5. CASE d.rev = v.rev + 1 /\ Unmarked(d)
    <3> DEFINE e == [op |-> "read", rev |-> d.rev, count |-> 0,
                     turn |-> d.informed, stage |-> "emitted"]
               S == Append(sent, e)
    <3>1. v.rev \in Nat /\ d.rev \in Nat /\ d.informed \in Nat /\ d.rev # v.rev
      BY <1>6, <2>2, <2>5 DEF Cursor
    <3>2. e \in Entry /\ e.count = 0 /\ e.op = "read"
      BY <3>1 DEF Entry, Read
    <3>3. sent' = S
      BY <1>2, <2>1, <3>1, <3>2
    <3> HIDE DEF e
    <3>4. /\ DOMAIN S = 1 .. Len(sent) + 1 /\ DOMAIN sent = 1 .. Len(sent) /\ Len(sent) \in Nat
          /\ \A i \in DOMAIN sent : S[i] = sent[i]
          /\ S[Len(sent) + 1] = e
      BY <1>2, <3>2
    <3> HIDE DEF S
    <3>5. \A i \in DOMAIN S : (i \in DOMAIN sent /\ S[i] = sent[i]) \/ S[i] = e
      BY <3>4
    <3>6. ~Revocable(e)
      BY <3>2 DEF Revocable
    <3>7. SaneMarks(S, d)
      BY <2>3, <3>5, <3>6 DEF SaneMarks
    <3>8. Sizes(S)
      BY <1>6, <3>2, <3>5 DEF Proper, Sizes
    <3>9. Restorable(S)
      <4> SUFFICES ASSUME NEW i \in DOMAIN S, Revocable(S[i]), S[i].before[1] > 0
                   PROVE  \E j \in 1 .. i - 1 : /\ S[j].op \in Informational
                                                /\ S[j].rev = S[i].rev
                                                /\ S[j].count >= S[i].before[1]
        BY DEF Restorable
      <4>1. i \in DOMAIN sent /\ S[i] = sent[i]
        BY <3>5, <3>6
      <4>2. PICK j \in 1 .. i - 1 : /\ sent[j].op \in Informational
                                    /\ sent[j].rev = sent[i].rev
                                    /\ sent[j].count >= sent[i].before[1]
        BY <1>6, <4>1 DEF Proper, Restorable
      <4>3. j \in DOMAIN sent
        BY <3>4, <4>1
      <4> QED BY <3>4, <4>1, <4>2, <4>3
    <3>10. Backed(S, d)
      <4>1. ASSUME NEW i \in DOMAIN S, Revocable(S[i]) PROVE S[i].rev # d.rev
        <5>1. i \in DOMAIN sent /\ S[i] = sent[i]
          BY <3>5, <3>6, <4>1
        <5>2. sent[i].rev <= v.rev /\ sent[i].rev \in Nat
          BY <1>10, <5>1
        <5> QED BY <2>5, <3>1, <5>1, <5>2
      <4> QED BY <2>5, <4>1 DEF Backed, Unmarked
    <3>11. Proper(S, d)
      BY <2>2, <3>7, <3>8, <3>9, <3>10 DEF Proper
    <3> QED BY <1>1, <1>3, <2>1, <3>3, <3>11, FileWritten
  <2> QED BY <2>2, <2>4, <2>5 DEF ReadMarked
<1> QED BY <1>11, <1>12

LEMMA InheritFile ==
  ASSUME FileInv, Inherit
  PROVE  FileInv'
<1>1. /\ UNCHANGED <<scene, turn, txn, nonces>> /\ txn = NoTxn /\ cursor = NoCursor
      /\ sent = <<>> /\ epoch # NoEpoch
  BY DEF Inherit, FileInv, CountInv, LedgerInv, Ledger
<1> DEFINE c == FirstCursor(epoch)
           count == Cardinality(Unread(c, Scan))
           ct == TurnOf(c, turn)
<1>2. PICK op \in {"none", "tool", "stop"} :
        /\ op # "none" => count > 0
        /\ cursor' = [c EXCEPT !.v = scene.version,
                         !.stop = IF op = "stop" THEN c.rev ELSE 0,
                         !.high = IF op = "none" THEN 0 ELSE count,
                         !.last = IF op = "none" \/ scene.version = 1 THEN 0 ELSE ct]
        /\ sent' = IF op = "none" THEN sent ELSE
              Append(sent, [op |-> op, ws |-> epoch.ws, from |-> epoch.from,
                            rev |-> c.rev, count |-> count,
                            turn |-> IF scene.version = 1 THEN 0 ELSE ct,
                            stage |-> "emitted", before |-> <<0, 0>>,
                            after |-> <<count, ct>>])
  BY DEF Inherit
<1>3. /\ CountInv /\ LedgerInv /\ CursorInv /\ Types /\ epoch \in Epoch /\ turn \in Nat
      /\ Scan \in ScanType
  BY <1>1, SceneFacts, ScanProperties DEF FileInv, CountInv, LedgerInv, CursorInv, Types
<1>4. CountInv' /\ nonces' <= scene.nonces
  BY <1>1, <1>3, InheritCounts DEF FileInv, Budget
<1>5. c = Virtual(epoch)
  BY <1>1 DEF Virtual, SameEpoch
<1>6. Unmarked(c) /\ c.informed = 0
  BY DEF FirstCursor, Unmarked
<1> HIDE DEF c
<1>7. c \in Cursor /\ Sane(c)
  BY <1>3, <1>5, VirtualProperties, VirtualProper DEF Proper
<1>8. count \in Nat /\ ct \in Nat /\ (Claude => ct = c.gen)
  BY <1>3, <1>7, UnreadFinite, TurnOfType DEF TurnOf
<1> HIDE DEF count, ct
<1> DEFINE s == IF op = "stop" THEN c.rev ELSE 0
           g == IF op = "none" THEN 0 ELSE count
           l == IF op = "none" \/ scene.version = 1 THEN 0 ELSE ct
           d == [c EXCEPT !.v = scene.version, !.stop = s, !.high = g, !.last = l]
           e == [op |-> op, ws |-> epoch.ws, from |-> epoch.from,
                 rev |-> c.rev, count |-> count,
                 turn |-> IF scene.version = 1 THEN 0 ELSE ct,
                 stage |-> "emitted", before |-> <<0, 0>>, after |-> <<count, ct>>]
           S == IF op = "none" THEN <<>> ELSE <<e>>
<1>9. cursor' = d /\ sent' = S
  BY <1>1, <1>2
<1>10. /\ e.op = op /\ e.rev = c.rev /\ e.count = count /\ e.stage = "emitted"
       /\ e.after[1] = count
  OBVIOUS
<1>11. DOMAIN S = {} \/ (op # "none" /\ DOMAIN S = {1} /\ S[1] = e)
  OBVIOUS
<1>12. op # "none" => 1 \in DOMAIN S /\ S[1] = e
  OBVIOUS
<1> HIDE DEF e, S
<1>13. /\ s = (IF op = "stop" THEN c.rev ELSE 0)
       /\ g = (IF op = "none" THEN 0 ELSE count)
       /\ l \in {0, ct} /\ (op = "none" => l = 0)
  OBVIOUS
<1> HIDE DEF s, g, l
<1>14. /\ d.rev = c.rev /\ d.stop = s /\ d.high = g /\ d.last = l /\ d.gen = c.gen
       /\ d.informed = 0 /\ d.pending = c.pending /\ d.cov = c.cov
  BY <1>6, <1>7 DEF Cursor
<1> HIDE DEF d
<1>15. \A i \in DOMAIN S : ~Revocable(S[i])
  BY <1>10, <1>11 DEF Revocable
<1>16. Backed(S, d)
  <2>1. d.high > 0 => op # "none" /\ e.rev = d.rev /\ e.stage # "void" /\ e.count >= d.high
    BY <1>8, <1>10, <1>13, <1>14
  <2>2. d.stop > 0 => op = "stop" /\ e.rev = d.rev /\ e.stage # "void" /\ e.op = "stop"
    BY <1>10, <1>13, <1>14
  <2> QED BY <1>12, <1>15, <2>1, <2>2 DEF Backed
<1>17. Sane(d)
  <2>1. DecodesPending(d)
    BY <1>7, <1>14 DEF Sane, DecodesPending
  <2>2. c.gen \in Nat /\ c.gen > 0 /\ c.rev > 0
    BY <1>7 DEF Sane, Cursor
  <2>3. d.stop \in {0, d.rev} /\ (d.last > 0 => d.high > 0)
    BY <1>2, <1>13, <1>14
  <2>4. Claude => d.last <= d.gen /\ d.informed <= d.gen
    BY <1>8, <1>13, <1>14, <2>2
  <2> QED BY <1>7, <1>14, <2>1, <2>2, <2>3, <2>4 DEF Sane
<1>18. Sizes(S)
  BY <1>8, <1>10, <1>11 DEF Sizes
<1>19. Proper(S, d)
  BY <1>15, <1>16, <1>17, <1>18 DEF Proper, Restorable, SaneMarks
<1> QED BY <1>1, <1>4, <1>9, <1>19, FileWritten

LEMMA ExpireFile ==
  ASSUME FileInv, Expire
  PROVE  FileInv'
<1>1. UNCHANGED <<scene, turn, txn, sent, nonces>> /\ cursor # NoCursor /\ txn = NoTxn
  BY DEF Expire
<1>2. /\ CountInv /\ Types /\ cursor \in Cursor /\ Proper(sent, cursor)
  BY <1>1 DEF FileInv, CountInv, LedgerInv, CursorInv, Types
<1>3. CountInv' /\ nonces' <= scene.nonces
  BY <1>1, <1>2, ExpireCounts DEF FileInv, Budget
<1>4. PICK p \in cursor.pending :
        cursor' = [cursor EXCEPT !.pending = (cursor.pending \ {p})
                                             \union {[p EXCEPT !.live = FALSE]}]
  BY DEF Expire
<1> DEFINE q == [p EXCEPT !.live = FALSE]
<1>5. q.tool = p.tool /\ q.nonce = p.nonce /\ q.turn = p.turn
  OBVIOUS
<1>6. cursor' = [cursor EXCEPT !.pending = (cursor.pending \ {p}) \union {q}]
  BY <1>4
<1> HIDE DEF q
<1>7. Sane(cursor) /\ Backed(sent, cursor) /\ SaneMarks(sent, cursor)
  BY <1>2 DEF Proper
<1> DEFINE d == [cursor EXCEPT !.pending = (cursor.pending \ {p}) \union {q}]
<1>8. Sane(d) /\ d.gen = cursor.gen
  BY <1>2, <1>5, <1>7, PendingReplaced
<1>9. /\ d.rev = cursor.rev /\ d.stop = cursor.stop /\ d.high = cursor.high
      /\ d.last = cursor.last /\ d.ws = cursor.ws /\ d.from = cursor.from
  BY <1>2 DEF Cursor
<1>10. cursor' = d
  BY <1>6
<1> HIDE DEF d
<1>11. Backed(sent, d)
  BY <1>7, <1>9, BackedSame
<1>12. SaneMarks(sent, d)
  BY <1>7, <1>8 DEF SaneMarks
<1>13. Proper(sent, d)
  BY <1>2, <1>8, <1>11, <1>12 DEF Proper
<1>14. PICK S : S = sent
  OBVIOUS
<1> QED BY <1>1, <1>3, <1>10, <1>13, <1>14, FileWritten

-----------------------------------------------------------------------------
(* Steps of the claims *)

LEMMA SettlesRest ==
  ASSUME NEW S \in Seq(Entry), NEW c, NEW k \in DOMAIN S, NEW f, Settled(S[k], f),
         Restorable(S), Sizes(S), SaneMarks(S, c)
  PROVE  LET T == [S EXCEPT ![k] = f] IN Restorable(T) /\ Sizes(T) /\ SaneMarks(T, c)
<1> DEFINE T == [S EXCEPT ![k] = f]
<1>1. /\ Len(S) \in Nat /\ DOMAIN S = 1 .. Len(S) /\ DOMAIN T = DOMAIN S
      /\ T[k] = f /\ \A i \in DOMAIN S : i # k => T[i] = S[i]
  OBVIOUS
<1> HIDE DEF T
<1>2. \A i \in DOMAIN T :
        /\ i \in DOMAIN S /\ T[i].op = S[i].op /\ T[i].rev = S[i].rev
        /\ T[i].count = S[i].count /\ T[i].before = S[i].before /\ T[i].after = S[i].after
        /\ Revocable(T[i]) => Revocable(S[i])
  BY <1>1 DEF Settled
<1>3. Sizes(T)
  BY <1>2 DEF Sizes
<1>4. SaneMarks(T, c)
  BY <1>2 DEF SaneMarks
<1>5. Restorable(T)
  <2> SUFFICES ASSUME NEW i \in DOMAIN T, Revocable(T[i]), T[i].before[1] > 0
               PROVE  \E j \in 1 .. i - 1 : /\ T[j].op \in Informational
                                            /\ T[j].rev = T[i].rev
                                            /\ T[j].count >= T[i].before[1]
    BY DEF Restorable
  <2>1. i \in DOMAIN S /\ Revocable(S[i]) /\ S[i].before[1] > 0
    BY <1>2
  <2>2. PICK j \in 1 .. i - 1 : /\ S[j].op \in Informational /\ S[j].rev = S[i].rev
                                /\ S[j].count >= S[i].before[1]
    BY <2>1 DEF Restorable
  <2>3. j \in DOMAIN T
    BY <1>1, <2>1
  <2> QED BY <1>2, <2>2, <2>3
<1> QED BY <1>3, <1>4, <1>5 DEF T

LEMMA SettleFile ==
  ASSUME FileInv, NEW i \in DOMAIN sent, Emit(i) \/ Fail(i)
  PROVE  FileInv'
<1>1. /\ UNCHANGED <<scene, turn, cursor, txn, nonces>>
      /\ CountInv /\ LedgerInv /\ cursor # NoCursor /\ Proper(sent, cursor)
  BY DEF Emit, Fail, FileInv, CountInv, LedgerInv, Ledger
<1>2. CountInv'
  BY <1>1, SettleCounts
<1>3. sent \in Seq(Entry) /\ sent[i] \in Delivery
  <2>1. sent[i].stage = "claimed"
    BY DEF Emit, Fail
  <2>2. sent \in Seq(Entry) /\ sent[i] \in Entry
    BY <1>1 DEF LedgerInv, CursorInv, Types, Entry
  <2> QED BY <2>1, <2>2 DEF Entry, Read
<1>4. PICK stage \in {"emitted", "failed"} :
        /\ sent[i].stage = "claimed" /\ (stage = "failed" => sent[i].op = "stop")
        /\ sent' = [sent EXCEPT ![i].stage = stage]
  BY DEF Emit, Fail, Settle
<1> DEFINE e == [sent[i] EXCEPT !.stage = stage]
<1>5. Settled(sent[i], e)
  BY <1>3, <1>4, SettledStage
<1>6. e.stage = stage /\ e.ws = sent[i].ws /\ e.from = sent[i].from
  BY <1>3 DEF Delivery
<1>7. sent' = [sent EXCEPT ![i] = e]
  BY <1>3, <1>4
<1> HIDE DEF e
<1> DEFINE S == [sent EXCEPT ![i] = e]
<1>8. Restorable(S) /\ Sizes(S) /\ SaneMarks(S, cursor)
  BY <1>1, <1>3, <1>5, SettlesRest DEF Proper
<1>9. DOMAIN S = DOMAIN sent /\ \A k \in DOMAIN sent : S[k] = IF k = i THEN e ELSE sent[k]
  OBVIOUS
<1>10. sent' = S
  BY <1>7
<1> HIDE DEF S
<1>11. \A k \in DOMAIN sent :
        /\ S[k].op = sent[k].op /\ S[k].rev = sent[k].rev /\ S[k].count = sent[k].count
        /\ S[k].after = sent[k].after
        /\ sent[k].stage # "void" => S[k].stage # "void"
        /\ Revocable(S[k]) =>
              Revocable(sent[k]) /\ S[k].ws = sent[k].ws /\ S[k].from = sent[k].from
  BY <1>4, <1>5, <1>6, <1>9 DEF Settled
<1>12. Backed(S, cursor)
  <2>1. Backed(sent, cursor)
    BY <1>1 DEF Proper
  <2>2. cursor.high > 0 => \E k \in DOMAIN S :
          S[k].rev = cursor.rev /\ S[k].stage # "void" /\ S[k].count >= cursor.high
    BY <1>9, <1>11, <2>1 DEF Backed
  <2>3. cursor.stop > 0 => \E k \in DOMAIN S :
          S[k].rev = cursor.rev /\ S[k].stage # "void" /\ S[k].op = "stop"
    BY <1>9, <1>11, <2>1 DEF Backed
  <2>4. \A k \in DOMAIN S : Revocable(S[k]) /\ S[k].rev = cursor.rev =>
          /\ cursor.ws = S[k].ws /\ cursor.from = S[k].from
          /\ cursor.high = S[k].after[1] => cursor.last = S[k].after[2]
    BY <1>9, <1>11, <2>1 DEF Backed
  <2> QED BY <2>2, <2>3, <2>4 DEF Backed
<1>13. Proper(S, cursor)
  BY <1>1, <1>8, <1>12 DEF Proper
<1>14. StopHeld' => StopHeld
  <2> SUFFICES ASSUME NEW k \in DOMAIN S, S[k].stage \in {"claimed", "failed"},
                      S[k].op = "stop"
               PROVE  StopHeld
    BY <1>10 DEF StopHeld, Held
  <2>1. k \in DOMAIN sent /\ Revocable(sent[k])
    BY <1>9, <1>11 DEF Revocable
  <2> QED BY <2>1 DEF StopHeld, Held, Revocable
<1>15. StopsAlone' /\ Budget'
  BY <1>1, <1>14 DEF FileInv, StopsAlone, Budget, Claude
<1>16. PICK c, T : c = cursor /\ T = S
  OBVIOUS
<1>17. Proper(T, c)'
  BY <1>1, <1>13, <1>16, ProperStays
<1>18. cursor' = c /\ sent' = T
  BY <1>1, <1>10, <1>16
<1> QED BY <1>2, <1>15, <1>17, <1>18 DEF FileInv

(* What else was delivered at the revision of a Stop that stands was none. *)
LEMMA OneStops ==
  ASSUME NEW S \in Seq(Entry), History(S), NEW i \in DOMAIN S, Standing(S[i]),
         NEW k \in DOMAIN S, k # i, S[k].rev = S[i].rev
  PROVE  ~Standing(S[k]) /\ ~Revocable(S[k])
<1>1. k \in Nat /\ i \in Nat /\ k >= 1 /\ i >= 1
  OBVIOUS
<1>2. Told(S[k], S[i]) \/ Told(S[i], S[k])
  <2>1. CASE k < i
    BY <1>1, <2>1 DEF History, Pair
  <2>2. CASE i < k
    BY <1>1, <2>2 DEF History, Pair
  <2> QED BY <1>1, <2>1, <2>2
<1>3. ~Standing(S[k])
  BY <1>2 DEF Told, Standing
<1> QED BY <1>3 DEF Standing, Revocable

(* A rollback at the revision of the cursor finds its membership and latch. *)
LEMMA StopMet ==
  ASSUME NEW c \in Cursor, c # NoCursor, NEW S \in Seq(Entry), Proper(S, c),
         NEW i \in DOMAIN S, Booked(S[i], c), Revocable(S[i]), c.rev = S[i].rev
  PROVE  SameEpoch(c, S[i]) /\ c.stop = S[i].rev
<1>1. c.ws = S[i].ws /\ c.from = S[i].from
  BY DEF Proper, Backed
<1>2. Standing(S[i])
  BY DEF Revocable, Standing
<1>3. c.stop = c.rev
  BY <1>2 DEF Booked, Marked
<1> QED BY <1>1, <1>3 DEF SameEpoch

LEMMA RollbackFile ==
  ASSUME FileInv, NEW i \in DOMAIN sent, Rollback(i)
  PROVE  FileInv'
<1> DEFINE r == sent[i]
           e == [r EXCEPT !.stage = "void"]
           S == [sent EXCEPT ![i] = e]
<1>1. /\ UNCHANGED <<scene, turn, txn, nonces>> /\ r.stage = "failed" /\ txn = NoTxn
      /\ sent' = [sent EXCEPT ![i].stage = "void"]
  BY DEF Rollback, Settle
<1>2. /\ CountInv /\ LedgerInv /\ cursor # NoCursor /\ cursor \in Cursor
      /\ sent \in Seq(Entry) /\ Proper(sent, cursor)
      /\ History(sent) /\ \A k \in DOMAIN sent : Booked(sent[k], cursor)
  BY DEF FileInv, CountInv, LedgerInv, CursorInv, Types, Entry, Ledger
<1>3. CountInv' /\ nonces' <= scene.nonces
  BY <1>1, <1>2, SettleCounts DEF FileInv, Budget
<1>4. r \in Delivery /\ r.op = "stop"
  <2>1. r \in Entry /\ Staged(r)
    BY <1>2 DEF Booked
  <2> QED BY <1>1, <2>1 DEF Entry, Read, Staged, Live
<1>5. Settled(r, e)
  <2>1. "void" \in {"emitted", "failed", "void"}
    OBVIOUS
  <2> QED BY <1>1, <1>4, <2>1, SettledStage
<1>6. e.stage = "void"
  BY <1>4 DEF Delivery
<1>7. Restorable(S) /\ Sizes(S)
  BY <1>2, <1>5, SettlesRest DEF Proper
<1>8. SaneMarks(S, cursor)
  BY <1>2, <1>5, SettlesRest DEF Proper
<1>9. DOMAIN S = DOMAIN sent /\ \A k \in DOMAIN sent : S[k] = IF k = i THEN e ELSE sent[k]
  OBVIOUS
<1>10. sent' = S
  BY <1>1
<1>11. Booked(r, cursor) /\ Revocable(r) /\ Standing(r)
  BY <1>1, <1>2, <1>4 DEF Revocable, Standing
<1>12. /\ r.after[1] \in Nat /\ r.after[2] \in Nat /\ r.before[1] \in Nat /\ r.before[2] \in Nat
       /\ r.count \in Nat /\ r.after = <<r.after[1], r.after[2]>>
       /\ r.count <= r.after[1]
  BY <1>2, <1>4 DEF Delivery, Proper, Sizes
<1> HIDE DEF e, S
<1>13. \A k \in DOMAIN sent : k # i => S[k] = sent[k]
  BY <1>9
<1>14. ~Revocable(S[i])
  BY <1>6, <1>9 DEF Revocable
<1>15. ASSUME NEW k \in DOMAIN sent, k # i, sent[k].rev = r.rev
       PROVE  ~Standing(sent[k]) /\ ~Revocable(sent[k])
  <2> HIDE DEF r
  <2> QED BY <1>2, <1>4, <1>11, <1>15, OneStops DEF r
<1> DEFINE met == SameEpoch(cursor, r) /\ cursor.rev = r.rev /\ cursor.stop = r.rev
<1>16. cursor.rev = r.rev => met
  BY <1>2, <1>11, StopMet
<1>17. CASE ~met
  <2>1. cursor' = cursor /\ r.rev # cursor.rev
    BY <1>16, <1>17 DEF Rollback
  <2>2. Backed(S, cursor)
    <3>1. Backed(sent, cursor)
      BY <1>2 DEF Proper
    <3>2. cursor.high > 0 => \E k \in DOMAIN S :
            S[k].rev = cursor.rev /\ S[k].stage # "void" /\ S[k].count >= cursor.high
      BY <1>9, <1>13, <2>1, <3>1 DEF Backed
    <3>3. cursor.stop > 0 => \E k \in DOMAIN S :
            S[k].rev = cursor.rev /\ S[k].stage # "void" /\ S[k].op = "stop"
      BY <1>9, <1>13, <2>1, <3>1 DEF Backed
    <3>4. \A k \in DOMAIN S : Revocable(S[k]) /\ S[k].rev = cursor.rev =>
            /\ cursor.ws = S[k].ws /\ cursor.from = S[k].from
            /\ cursor.high = S[k].after[1] => cursor.last = S[k].after[2]
      BY <1>9, <1>13, <1>14, <3>1 DEF Backed
    <3> QED BY <3>2, <3>3, <3>4 DEF Backed
  <2>3. Proper(S, cursor)
    BY <1>2, <1>7, <1>8, <2>2 DEF Proper
  <2>4. PICK c, T : c = cursor /\ T = S
    OBVIOUS
  <2> QED BY <1>1, <1>3, <1>10, <2>1, <2>3, <2>4, FileWritten
<1>18. ASSUME NEW d \in Cursor, cursor' = d, met,
              d.rev = cursor.rev, d.stop = 0, d.gen = cursor.gen,
              d.informed = cursor.informed, d.pending = cursor.pending, d.cov = cursor.cov,
              \/ d.high = r.before[1] /\ d.last = r.before[2]
              \/ /\ d.high = cursor.high /\ d.last = cursor.last
                 /\ <<cursor.high, cursor.last>> # r.after
       PROVE  FileInv'
  <2>1. cursor.high \in Nat /\ cursor.last \in Nat /\ cursor.rev \in Nat
    BY <1>2 DEF Cursor
  <2>2. d.high > 0 => \E k \in DOMAIN S :
          S[k].rev = d.rev /\ S[k].stage # "void" /\ S[k].count >= d.high
    <3> SUFFICES ASSUME d.high > 0
                 PROVE  \E k \in DOMAIN sent :
                          /\ k # i /\ sent[k].rev = d.rev /\ sent[k].stage # "void"
                          /\ sent[k].count >= d.high
      BY <1>9, <1>13
    <3>1. CASE d.high = r.before[1] /\ d.last = r.before[2]
      <4>1. PICK j \in 1 .. i - 1 : /\ sent[j].op \in Informational /\ sent[j].rev = r.rev
                                    /\ sent[j].count >= r.before[1]
        BY <1>2, <1>11, <3>1 DEF Proper, Restorable
      <4>2. j \in DOMAIN sent /\ j # i
        BY <1>2
      <4>3. sent[j].stage # "void"
        BY <1>2, <4>1, <4>2 DEF Booked, Staged, Live, Informational
      <4> QED BY <1>18, <3>1, <4>1, <4>2, <4>3
    <3>2. CASE <<cursor.high, cursor.last>> # r.after /\ d.high = cursor.high
      <4>1. cursor.high # r.after[1]
        <5>1. cursor.high = r.after[1] => cursor.last = r.after[2]
          BY <1>2, <1>11, <1>18 DEF Proper, Backed
        <5> QED BY <1>12, <3>2, <5>1
      <4>2. r.after[1] <= cursor.high
        BY <1>11, <1>18 DEF Booked, Marked
      <4>3. PICK k \in DOMAIN sent : /\ sent[k].rev = cursor.rev /\ sent[k].stage # "void"
                                     /\ sent[k].count >= cursor.high
        BY <1>2, <3>2 DEF Proper, Backed
      <4>4. k # i
        <5> SUFFICES ASSUME k = i PROVE FALSE
          OBVIOUS
        <5>1. r.count >= cursor.high
          BY <4>3
        <5> QED BY <1>12, <2>1, <4>1, <4>2, <5>1
      <4> QED BY <1>18, <3>2, <4>3, <4>4
    <3> QED BY <1>18, <3>1, <3>2
  <2>3. \A k \in DOMAIN S : ~(Revocable(S[k]) /\ S[k].rev = d.rev)
    BY <1>9, <1>13, <1>14, <1>15, <1>18
  <2>4. Backed(S, d)
    BY <1>18, <2>2, <2>3 DEF Backed
  <2>5. Sane(cursor) /\ SaneMarks(sent, cursor)
    BY <1>2 DEF Proper
  <2>6. Sane(d)
    <3>1. DecodesPending(d)
      BY <1>18, <2>5 DEF Sane, DecodesPending
    <3>2. r.before[2] > 0 => r.before[1] > 0
      BY <1>11, <2>5 DEF SaneMarks
    <3>3. Claude => r.before[2] <= cursor.gen
      BY <1>11, <2>5 DEF SaneMarks
    <3>4. (d.last > 0 => d.high > 0) /\ (Claude => d.last <= d.gen /\ d.informed <= d.gen)
      BY <1>18, <2>5, <3>2, <3>3 DEF Sane
    <3> QED BY <1>18, <2>5, <3>1, <3>4 DEF Sane
  <2>7. SaneMarks(S, d)
    BY <1>8, <1>18 DEF SaneMarks
  <2>8. Proper(S, d)
    BY <1>7, <2>4, <2>6, <2>7 DEF Proper
  <2>9. PICK T : T = S
    OBVIOUS
  <2> QED BY <1>1, <1>3, <1>10, <1>18, <2>8, <2>9, FileWritten
<1>19. CASE met
  <2>1. 0 \in Nat
    OBVIOUS
  <2>2. CASE <<cursor.high, cursor.last>> = r.after
    <3> DEFINE d == [cursor EXCEPT !.stop = 0, !.high = r.before[1], !.last = r.before[2]]
    <3>1. cursor' = d
      BY <1>19, <2>2 DEF Rollback
    <3>2. d \in Cursor
      BY <1>2, <1>12, <2>1, BudgetType
    <3>3. /\ d.rev = cursor.rev /\ d.stop = 0 /\ d.gen = cursor.gen
          /\ d.informed = cursor.informed /\ d.pending = cursor.pending /\ d.cov = cursor.cov
          /\ d.high = r.before[1] /\ d.last = r.before[2]
      BY <1>2 DEF Cursor
    <3> HIDE DEF d
    <3> QED BY <1>18, <1>19, <3>1, <3>2, <3>3
  <2>3. CASE <<cursor.high, cursor.last>> # r.after
    <3> DEFINE d == [cursor EXCEPT !.stop = 0]
    <3>1. cursor' = d
      BY <1>19, <2>3 DEF Rollback
    <3>2. d \in Cursor
      BY <1>2, <1>12, <2>1, BudgetType
    <3>3. /\ d.rev = cursor.rev /\ d.stop = 0 /\ d.gen = cursor.gen
          /\ d.informed = cursor.informed /\ d.pending = cursor.pending /\ d.cov = cursor.cov
          /\ d.high = cursor.high /\ d.last = cursor.last
      BY <1>2 DEF Cursor
    <3> HIDE DEF d
    <3> QED BY <1>18, <1>19, <2>3, <3>1, <3>2, <3>3
  <2> QED BY <2>2, <2>3
<1> QED BY <1>17, <1>19

-----------------------------------------------------------------------------
(* All steps *)

LEMMA FileAside ==
  ASSUME FileInv, CountInv', UNCHANGED <<scene, cursor, sent>>, StopsAlone', Budget'
  PROVE  FileInv'
<1>1. PICK c, S : c = cursor /\ S = sent
  OBVIOUS
<1>2. CASE cursor = NoCursor
  BY <1>2 DEF FileInv
<1>3. CASE cursor # NoCursor
  <2>1. Proper(S, c)
    BY <1>1, <1>3 DEF FileInv
  <2>2. Proper(S, c)'
    BY <2>1, ProperStays
  <2>3. cursor' = c /\ sent' = S
    BY <1>1
  <2> QED BY <2>2, <2>3 DEF FileInv
<1> QED BY <1>2, <1>3

LEMMA OpenFile ==
  ASSUME FileInv, CountInv', NEW h \in HookCalls, Open(h)
  PROVE  FileInv'
<1>1. /\ UNCHANGED <<scene, cursor, sent, nonces>> /\ txn'.hook = h
      /\ h.op = "stop" \/ (h.op = "prompt" /\ Claude) => ~StopHeld
      /\ h.op = "reserve" => nonces < scene.nonces
  BY DEF Open
<1>2. StopHeld' <=> StopHeld
  BY <1>1 DEF StopHeld, Held
<1>3. StopsAlone'
  BY <1>1, <1>2 DEF StopsAlone, Claude
<1>4. Budget'
  BY <1>1 DEF FileInv, Budget
<1> QED BY <1>1, <1>3, <1>4, FileAside

LEMMA CheckFile ==
  ASSUME FileInv, CountInv', Check
  PROVE  FileInv'
<1>1. /\ UNCHANGED <<scene, cursor, sent, nonces>> /\ txn # NoTxn /\ txn \in Txn
      /\ txn' = IF txn.epoch # epoch THEN NoTxn
                ELSE [txn EXCEPT !.phase = "checked",
                                 !.scan = IF txn.hook.op = "commit" THEN Scan ELSE @]
  BY DEF Check, FileInv, CountInv, LedgerInv, CursorInv, Types
<1>2. txn' # NoTxn => txn'.hook = txn.hook
  <2>1. DOMAIN txn = {"hook", "turn", "epoch", "scan", "phase"}
    BY <1>1 DEF Txn
  <2> QED BY <1>1, <2>1
<1>3. StopHeld' <=> StopHeld
  BY <1>1 DEF StopHeld, Held
<1>4. StopsAlone'
  BY <1>1, <1>2, <1>3 DEF FileInv, StopsAlone, Claude
<1>5. Budget'
  BY <1>1, <1>2 DEF FileInv, Budget
<1> QED BY <1>1, <1>4, <1>5, FileAside

LEMMA FileInvStep ==
  ASSUME FileInv, [Next]_vars
  PROVE  FileInv'
<1>1. CountInv /\ CountInv'
  BY CountInvStep DEF FileInv
<1>2. ASSUME UNCHANGED <<scene, cursor, sent, txn, nonces>> PROVE FileInv'
  <2>1. StopsAlone' /\ Budget'
    BY <1>2 DEF FileInv, StopsAlone, StopHeld, Held, Claude, Budget
  <2> QED BY <1>1, <1>2, <2>1, FileAside
<1>3. CASE \/ \E f \in scene.feeds : Publish(f) \/ Change(f)
           \/ Tick
           \/ \E w \in scene.workstreams : Move(w)
           \/ \E t \in Tools : ReadCommand(t)
           \/ UNCHANGED vars
  BY <1>2, <1>3 DEF Publish, Change, Tick, Move, ReadCommand, vars
<1>4. ASSUME NEW h \in HookCalls, Open(h) PROVE FileInv'
  BY <1>1, <1>4, OpenFile
<1>5. CASE Expire \/ Check \/ WriteClaim \/ WriteRead \/ Inherit
  BY <1>1, <1>5, ExpireFile, CheckFile, WriteClaimFile, WriteReadFile, InheritFile
<1>6. ASSUME NEW i \in DOMAIN sent, Emit(i) \/ Fail(i) \/ Rollback(i) PROVE FileInv'
  BY <1>6, SettleFile, RollbackFile
<1> QED BY <1>3, <1>4, <1>5, <1>6 DEF Next

LEMMA InitFileInv == Init /\ scene.version # 1 => FileInv
<1> SUFFICES ASSUME Init, scene.version # 1 PROVE FileInv
  OBVIOUS
<1>1. CountInv /\ cursor = NoCursor /\ txn = NoTxn /\ nonces = 0 /\ scene \in Scenes
  BY InitCountInv DEF Init
<1>2. 0 <= scene.nonces
  BY <1>1, NudgeAssumption DEF SceneType
<1> QED BY <1>1, <1>2 DEF FileInv, StopsAlone, Budget

-----------------------------------------------------------------------------
(* What the cursor file says was delivered was, or is about to be, and is still
   unread; a Stop that is rolled back leaves no remains; and both decoders
   accept every cursor that the hooks write, whichever of them read it. *)
THEOREM LedgerIsTrue == Spec /\ scene.version # 1 => []LedgerHolds
<1>1. FileInv /\ [Next]_vars => FileInv'
  BY FileInvStep
<1> QED BY <1>1, InitFileInv, FileInvHolds, PTL DEF Spec

-----------------------------------------------------------------------------
(* The turns of Codex *)

(* After the i-th of S and before the n-th, a hook of another turn was told at
   the same revision. *)
Overtaken(S, i, n) ==
    \E k \in i + 1 .. n - 1 : /\ S[k].op \in Informational
                              /\ S[k].rev = S[i].rev /\ S[k].turn # S[i].turn

(* A Stop of a turn that was told came after another turn's hook, ... *)
Blocks(S) ==
    \A j \in DOMAIN S : S[j].op = "stop" =>
        \A i \in 1 .. j - 1 :
            S[i].op \in Informational /\ S[i].rev = S[j].rev /\ S[i].turn = S[j].turn
            => Overtaken(S, i, j)

(* ... and what it would restore is the turn that was told last before it. *)
Restores(S) ==
    \A r \in DOMAIN S : Revocable(S[r]) =>
        \A i \in 1 .. r - 1 :
            S[i].op \in Informational /\ S[i].rev = S[r].rev
            => S[r].before[2] = S[i].turn \/ Overtaken(S, i, r)

(* The cursor names the turn told last, unless a Stop stands, ... *)
Named(S, c) ==
    \A i \in DOMAIN S : S[i].op \in Informational /\ S[i].rev = c.rev =>
        \/ c.last = S[i].turn
        \/ Overtaken(S, i, Len(S) + 1)
        \/ \E r \in i + 1 .. Len(S) : Standing(S[r]) /\ S[r].rev = c.rev

(* ... and after a Stop that may be rolled back, if more was told since. *)
Renamed(S, c) ==
    \A r \in DOMAIN S :
        Revocable(S[r]) /\ S[r].rev = c.rev /\ c.high # S[r].after[1] =>
        \E k \in r + 1 .. Len(S) :
            S[k].op \in Informational /\ S[k].rev = c.rev /\ S[k].turn = c.last

Attended(S, c) == Blocks(S) /\ Restores(S) /\ Named(S, c) /\ Renamed(S, c)

TurnInv ==
    /\ FileInv
    /\ ~Claude /\ cursor # NoCursor => Attended(sent, cursor)

LEMMA TurnInvSpares == TurnInv => StopSparesInformedTurn
<1> SUFFICES ASSUME TurnInv, NEW j \in DOMAIN sent, ~Claude, sent[j].op = "stop",
                    NEW i \in 1 .. j - 1, sent[i].op # "stop",
                    sent[i].rev = sent[j].rev, sent[i].turn = sent[j].turn
             PROVE  /\ sent[i].op # "read"
                    /\ \E k \in i + 1 .. j - 1 :
                          /\ sent[k].op \in Informational
                          /\ sent[k].rev = sent[j].rev /\ sent[k].turn # sent[j].turn
  BY DEF StopSparesInformedTurn
<1>1. /\ LedgerInv /\ cursor # NoCursor /\ sent \in Seq(Entry)
  BY DEF TurnInv, FileInv, CountInv, LedgerInv, Ledger, CursorInv, Types, Entry
<1>2. Spared(sent[i], sent[j])
  BY <1>1 DEF LedgerInv, Ledger, History, Pair
<1>3. sent[i].op # "read"
  BY <1>2 DEF Spared
<1>4. sent[i].op \in Informational
  <2>1. sent[i] \in Entry
    BY <1>1
  <2> QED BY <1>3, <2>1, EntryTypes DEF Informational
<1>5. Overtaken(sent, i, j)
  BY <1>1, <1>4 DEF TurnInv, Attended, Blocks
<1> QED BY <1>3, <1>5 DEF Overtaken

LEMMA OvertakenStays ==
  ASSUME NEW S, NEW T, NEW i \in Nat, NEW n \in Nat, NEW m \in Nat, n <= m,
         \A k \in i .. n - 1 : /\ T[k].op = S[k].op /\ T[k].rev = S[k].rev
                               /\ T[k].turn = S[k].turn,
         Overtaken(S, i, n)
  PROVE  Overtaken(T, i, m)
<1>1. PICK k \in i + 1 .. n - 1 : /\ S[k].op \in Informational
                                  /\ S[k].rev = S[i].rev /\ S[k].turn # S[i].turn
  BY DEF Overtaken
<1>2. i \in i .. n - 1 /\ k \in i .. n - 1 /\ k \in i + 1 .. m - 1
  BY <1>1
<1> QED BY <1>1, <1>2 DEF Overtaken

(* The same deliveries under a cursor with the same marks, or a newer one. *)
LEMMA AttendedSame ==
  ASSUME NEW S, NEW c, NEW d, d.rev = c.rev, d.high = c.high, d.last = c.last,
         Attended(S, c)
  PROVE  Attended(S, d)
BY DEF Attended, Named, Renamed

LEMMA AttendedNewer ==
  ASSUME NEW S, NEW c, NEW d, \A i \in DOMAIN S : S[i].rev # d.rev, Attended(S, c)
  PROVE  Attended(S, d)
BY DEF Attended, Named, Renamed

LEMMA AppendFacts ==
  ASSUME NEW S \in Seq(Entry), NEW e \in Entry
  PROVE  LET T == Append(S, e)
             n == Len(S) + 1
         IN /\ n \in Nat /\ Len(T) = n /\ DOMAIN T = 1 .. n /\ DOMAIN S = 1 .. n - 1
            /\ T[n] = e /\ \A i \in 1 .. n - 1 : T[i] = S[i] /\ S[i] \in Entry
            /\ \A i \in Nat, m \in Nat, l \in Nat :
                  m <= n /\ m <= l /\ i >= 1 /\ Overtaken(S, i, m) => Overtaken(T, i, l)
<1> DEFINE T == Append(S, e)
           n == Len(S) + 1
<1>1. /\ n \in Nat /\ Len(T) = n /\ DOMAIN T = 1 .. n /\ DOMAIN S = 1 .. n - 1
      /\ T[n] = e /\ \A i \in 1 .. n - 1 : T[i] = S[i] /\ S[i] \in Entry
  OBVIOUS
<1> HIDE DEF T, n
<1>2. ASSUME NEW i \in Nat, NEW m \in Nat, NEW l \in Nat, m <= n, m <= l, i >= 1,
             Overtaken(S, i, m)
      PROVE  Overtaken(T, i, l)
  <2>1. \A k \in i .. m - 1 : k \in 1 .. n - 1
    BY <1>1, <1>2
  <2> QED BY <1>1, <1>2, <2>1, OvertakenStays
<1> QED BY <1>1, <1>2 DEF T, n

(* What a claim appends. *)
LEMMA AttendedClaim ==
  ASSUME ~Claude, NEW S \in Seq(Entry), NEW c \in Cursor, NEW d \in Cursor,
         NEW e \in Entry, NEW h, NEW ep, NEW t \in Nat,
         h.op \in {"prompt", "tool", "stop"}, Claimed(c, d, e, h, ep, t),
         \A i \in DOMAIN S : Booked(S[i], c), Attended(S, c)
  PROVE  Attended(Append(S, e), d)
<1> DEFINE T == Append(S, e)
           n == Len(S) + 1
<1>1. /\ n \in Nat /\ Len(T) = n /\ DOMAIN T = 1 .. n /\ DOMAIN S = 1 .. n - 1
      /\ T[n] = e /\ \A i \in 1 .. n - 1 : T[i] = S[i] /\ S[i] \in Entry
      /\ \A i \in Nat, m \in Nat, l \in Nat :
            m <= n /\ m <= l /\ i >= 1 /\ Overtaken(S, i, m) => Overtaken(T, i, l)
  BY AppendFacts
<1>2. Len(S) = n - 1
  OBVIOUS
<1> HIDE DEF T, n
<1>3. /\ e.op = h.op /\ e.op \in {"prompt", "tool", "stop"} /\ e.rev = c.rev /\ d.rev = c.rev
      /\ e.stage = "claimed" /\ e.turn = t /\ e.before[2] = c.last /\ d.last = t
      /\ e.after = <<d.high, d.last>>
      /\ e.op = "stop" => c.stop # c.rev /\ t # c.last
  BY DEF Claimed
<1>4. ASSUME e.op = "stop", NEW i \in 1 .. n - 1
      PROVE  ~(Standing(S[i]) /\ S[i].rev = c.rev)
  BY <1>1, <1>3, <1>4 DEF Booked, Marked
<1>5. ASSUME NEW i \in 1 .. n - 1, S[i].op \in Informational, S[i].rev = c.rev,
             e.op = "stop"
      PROVE  c.last = S[i].turn \/ Overtaken(T, i, n)
  <2>1. c.last = S[i].turn \/ Overtaken(S, i, n)
    <3>1. \A r \in i + 1 .. Len(S) : r \in 1 .. n - 1
      BY <1>1, <1>2
    <3> QED BY <1>1, <1>2, <1>4, <1>5, <3>1 DEF Attended, Named
  <2> QED BY <1>1, <2>1
<1>6. Blocks(T)
  <2> SUFFICES ASSUME NEW j \in 1 .. n, T[j].op = "stop", NEW i \in 1 .. j - 1,
                      T[i].op \in Informational, T[i].rev = T[j].rev, T[i].turn = T[j].turn
               PROVE  Overtaken(T, i, j)
    BY <1>1 DEF Blocks
  <2>1. i \in 1 .. n - 1 /\ i \in Nat /\ j \in Nat
    BY <1>1
  <2>2. CASE j = n
    BY <1>1, <1>3, <1>5, <2>1, <2>2
  <2>3. CASE j # n
    <3>1. j \in 1 .. n - 1
      BY <1>1, <2>3
    <3>2. Overtaken(S, i, j)
      BY <1>1, <2>1, <3>1 DEF Attended, Blocks
    <3> QED BY <1>1, <2>1, <3>1, <3>2
  <2> QED BY <2>2, <2>3
<1>7. Restores(T)
  <2> SUFFICES ASSUME NEW r \in 1 .. n, Revocable(T[r]), NEW i \in 1 .. r - 1,
                      T[i].op \in Informational, T[i].rev = T[r].rev
               PROVE  T[r].before[2] = T[i].turn \/ Overtaken(T, i, r)
    BY <1>1 DEF Restores
  <2>1. i \in 1 .. n - 1 /\ i \in Nat /\ r \in Nat
    BY <1>1
  <2>2. CASE r = n
    <3>1. e.op = "stop"
      BY <1>1, <2>2 DEF Revocable
    <3> QED BY <1>1, <1>3, <1>5, <2>1, <2>2, <3>1
  <2>3. CASE r # n
    <3>1. r \in 1 .. n - 1
      BY <1>1, <2>3
    <3>2. S[r].before[2] = S[i].turn \/ Overtaken(S, i, r)
      BY <1>1, <2>1, <3>1 DEF Attended, Restores
    <3> QED BY <1>1, <2>1, <3>1, <3>2
  <2> QED BY <2>2, <2>3
<1>8. Named(T, d)
  <2> SUFFICES ASSUME NEW i \in 1 .. n, T[i].op \in Informational, T[i].rev = d.rev,
                      d.last # T[i].turn
               PROVE  \/ Overtaken(T, i, n + 1)
                      \/ \E r \in i + 1 .. n : Standing(T[r]) /\ T[r].rev = d.rev
    BY <1>1 DEF Named
  <2>1. i \in 1 .. n - 1 /\ i \in Nat /\ n \in i + 1 .. n
    BY <1>1, <1>3
  <2>2. CASE e.op = "stop"
    BY <1>1, <1>3, <2>1, <2>2 DEF Standing
  <2>3. CASE e.op # "stop"
    <3>1. T[n].op \in Informational /\ T[n].rev = T[i].rev /\ T[n].turn # T[i].turn
      BY <1>1, <1>3, <2>3 DEF Informational
    <3>2. n \in i + 1 .. (n + 1) - 1
      BY <1>1, <2>1
    <3> QED BY <3>1, <3>2 DEF Overtaken
  <2> QED BY <2>2, <2>3
<1>9. Renamed(T, d)
  <2> SUFFICES ASSUME NEW r \in 1 .. n, Revocable(T[r]), T[r].rev = d.rev,
                      d.high # T[r].after[1]
               PROVE  \E k \in r + 1 .. n :
                        T[k].op \in Informational /\ T[k].rev = d.rev /\ T[k].turn = d.last
    BY <1>1 DEF Renamed
  <2>1. r # n
    BY <1>1, <1>3
  <2>2. r \in 1 .. n - 1 /\ n \in r + 1 .. n /\ Standing(S[r])
    BY <1>1, <2>1 DEF Revocable, Standing
  <2>3. e.op # "stop"
    BY <1>1, <1>3, <1>4, <2>2
  <2> QED BY <1>1, <1>3, <2>2, <2>3 DEF Informational
<1> QED BY <1>6, <1>7, <1>8, <1>9 DEF Attended, T

(* A read that begins a revision. *)
LEMMA AttendedRead ==
  ASSUME NEW S \in Seq(Entry), NEW c, NEW d, NEW e \in Entry, e.op = "read",
         \A i \in DOMAIN S : S[i].rev # d.rev, Attended(S, c)
  PROVE  Attended(Append(S, e), d)
<1> DEFINE T == Append(S, e)
           n == Len(S) + 1
<1>1. /\ n \in Nat /\ Len(T) = n /\ DOMAIN T = 1 .. n /\ DOMAIN S = 1 .. n - 1
      /\ T[n] = e /\ \A i \in 1 .. n - 1 : T[i] = S[i] /\ S[i] \in Entry
      /\ \A i \in Nat, m \in Nat, l \in Nat :
            m <= n /\ m <= l /\ i >= 1 /\ Overtaken(S, i, m) => Overtaken(T, i, l)
  BY AppendFacts
<1> HIDE DEF T, n
<1>2. ~Revocable(e) /\ e.op # "stop" /\ e.op \notin Informational
  BY DEF Revocable, Informational
<1>3. Blocks(T)
  <2> SUFFICES ASSUME NEW j \in 1 .. n, T[j].op = "stop", NEW i \in 1 .. j - 1,
                      T[i].op \in Informational, T[i].rev = T[j].rev, T[i].turn = T[j].turn
               PROVE  Overtaken(T, i, j)
    BY <1>1 DEF Blocks
  <2>1. j # n
    BY <1>1, <1>2
  <2>2. j \in 1 .. n - 1 /\ i \in 1 .. n - 1 /\ i \in Nat /\ j \in Nat
    BY <1>1, <2>1
  <2>3. Overtaken(S, i, j)
    BY <1>1, <2>2 DEF Attended, Blocks
  <2> QED BY <1>1, <2>2, <2>3
<1>4. Restores(T)
  <2> SUFFICES ASSUME NEW r \in 1 .. n, Revocable(T[r]), NEW i \in 1 .. r - 1,
                      T[i].op \in Informational, T[i].rev = T[r].rev
               PROVE  T[r].before[2] = T[i].turn \/ Overtaken(T, i, r)
    BY <1>1 DEF Restores
  <2>1. r # n
    BY <1>1, <1>2
  <2>2. r \in 1 .. n - 1 /\ i \in 1 .. n - 1 /\ i \in Nat /\ r \in Nat
    BY <1>1, <2>1
  <2>3. T[r] = S[r] /\ T[i] = S[i] /\ r \in DOMAIN S /\ r <= n
    BY <1>1, <2>2
  <2>4. S[r].before[2] = S[i].turn \/ Overtaken(S, i, r)
    BY <2>3 DEF Attended, Restores
  <2>5. Overtaken(S, i, r) => Overtaken(T, i, r)
    BY <1>1, <2>2, <2>3
  <2> QED BY <2>3, <2>4, <2>5
<1>5. Named(T, d) /\ Renamed(T, d)
  <2>1. \A i \in 1 .. n : i = n \/ i \in 1 .. n - 1
    BY <1>1
  <2>2. \A i \in 1 .. n : ~(T[i].op \in Informational /\ T[i].rev = d.rev)
    BY <1>1, <1>2, <2>1
  <2>3. \A i \in 1 .. n : ~(Revocable(T[i]) /\ T[i].rev = d.rev)
    BY <1>1, <1>2, <2>1
  <2> QED BY <1>1, <2>2, <2>3 DEF Named, Renamed
<1> QED BY <1>3, <1>4, <1>5 DEF Attended, T

(* A delivery settles. *)
LEMMA AttendedSettles ==
  ASSUME NEW S \in Seq(Entry), NEW k \in DOMAIN S, NEW f, Settled(S[k], f)
  PROVE  LET T == [S EXCEPT ![k] = f] IN
         /\ Blocks(S) => Blocks(T)
         /\ Restores(S) => Restores(T)
         /\ \A c : Named(S, c) /\ (S[k].rev = c.rev /\ Standing(S[k]) => Standing(f))
                   => Named(T, c)
         /\ \A c : Renamed(S, c) => Renamed(T, c)
<1> DEFINE T == [S EXCEPT ![k] = f]
<1>1. /\ DOMAIN T = DOMAIN S /\ Len(T) = Len(S) /\ Len(S) \in Nat /\ DOMAIN S = 1 .. Len(S)
      /\ \A i \in DOMAIN S : T[i] = IF i = k THEN f ELSE S[i]
  OBVIOUS
<1> HIDE DEF T
<1>2. ASSUME NEW i \in DOMAIN S
      PROVE  /\ T[i].op = S[i].op /\ T[i].rev = S[i].rev /\ T[i].turn = S[i].turn
             /\ T[i].before = S[i].before /\ T[i].after = S[i].after
             /\ Revocable(T[i]) => Revocable(S[i])
  BY <1>1 DEF Settled
<1>3. ASSUME NEW i \in DOMAIN S, NEW n \in 1 .. Len(S) + 1, Overtaken(S, i, n)
      PROVE  Overtaken(T, i, n)
  <2>1. \A m \in i .. n - 1 : m \in DOMAIN S
    BY <1>1
  <2>2. i \in Nat /\ n \in Nat /\ n <= n
    BY <1>1
  <2> QED BY <1>2, <1>3, <2>1, <2>2, OvertakenStays
<1>4. \A j \in DOMAIN S : j \in 1 .. Len(S) + 1 /\ \A i \in 1 .. j - 1 : i \in DOMAIN S
  BY <1>1
<1>5. Blocks(S) => Blocks(T)
  <2> SUFFICES ASSUME Blocks(S), NEW j \in DOMAIN S, T[j].op = "stop", NEW i \in 1 .. j - 1,
                      T[i].op \in Informational, T[i].rev = T[j].rev, T[i].turn = T[j].turn
               PROVE  Overtaken(T, i, j)
    BY <1>1 DEF Blocks
  <2>1. Overtaken(S, i, j)
    BY <1>2, <1>4 DEF Blocks
  <2> QED BY <1>3, <1>4, <2>1
<1>6. Restores(S) => Restores(T)
  <2> SUFFICES ASSUME Restores(S), NEW r \in DOMAIN S, Revocable(T[r]), NEW i \in 1 .. r - 1,
                      T[i].op \in Informational, T[i].rev = T[r].rev
               PROVE  T[r].before[2] = T[i].turn \/ Overtaken(T, i, r)
    BY <1>1 DEF Restores
  <2>1. S[r].before[2] = S[i].turn \/ Overtaken(S, i, r)
    BY <1>2, <1>4 DEF Restores
  <2> QED BY <1>2, <1>3, <1>4, <2>1
<1>7. ASSUME NEW c, Named(S, c), S[k].rev = c.rev /\ Standing(S[k]) => Standing(f)
      PROVE  Named(T, c)
  <2> SUFFICES ASSUME NEW i \in DOMAIN S, T[i].op \in Informational, T[i].rev = c.rev,
                      c.last # T[i].turn, ~Overtaken(T, i, Len(S) + 1)
               PROVE  \E r \in i + 1 .. Len(S) : Standing(T[r]) /\ T[r].rev = c.rev
    BY <1>1 DEF Named
  <2>1. Len(S) + 1 \in 1 .. Len(S) + 1
    BY <1>1
  <2>2. ~Overtaken(S, i, Len(S) + 1)
    BY <1>3, <2>1
  <2>3. PICK r \in i + 1 .. Len(S) : Standing(S[r]) /\ S[r].rev = c.rev
    BY <1>2, <1>7, <2>2 DEF Named
  <2>4. r \in DOMAIN S
    BY <1>1
  <2>5. Standing(T[r]) /\ T[r].rev = c.rev
    BY <1>1, <1>2, <1>7, <2>3, <2>4
  <2> QED BY <2>5
<1>8. ASSUME NEW c, Renamed(S, c)
      PROVE  Renamed(T, c)
  <2> SUFFICES ASSUME NEW r \in DOMAIN S, Revocable(T[r]), T[r].rev = c.rev,
                      c.high # T[r].after[1]
               PROVE  \E l \in r + 1 .. Len(S) :
                        T[l].op \in Informational /\ T[l].rev = c.rev /\ T[l].turn = c.last
    BY <1>1 DEF Renamed
  <2>1. PICK l \in r + 1 .. Len(S) :
          S[l].op \in Informational /\ S[l].rev = c.rev /\ S[l].turn = c.last
    BY <1>2, <1>8 DEF Renamed
  <2>2. l \in DOMAIN S
    BY <1>1
  <2> QED BY <1>2, <2>1, <2>2
<1> QED BY <1>5, <1>6, <1>7, <1>8 DEF T

-----------------------------------------------------------------------------
(* Steps, and the turns *)

(* A hook wrote the cursor d and the deliveries S. *)
LEMMA TurnsWritten ==
  ASSUME FileInv', UNCHANGED scene, NEW d, cursor' = d, NEW S, sent' = S,
         ~Claude => Attended(S, d)
  PROVE  TurnInv'
<1>1. ~Claude => Attended(S, d)'
  BY DEF Attended, Blocks, Restores, Named, Renamed, Overtaken
<1> QED BY <1>1 DEF TurnInv, Claude

LEMMA TurnsAside ==
  ASSUME TurnInv, FileInv', UNCHANGED <<scene, cursor, sent>>
  PROVE  TurnInv'
BY DEF TurnInv, Claude, Attended, Blocks, Restores, Named, Renamed, Overtaken

LEMMA VirtualTurns ==
  ASSUME TurnInv, ~Claude, NEW ep \in Epoch
  PROVE  Attended(sent, Virtual(ep))
<1> DEFINE v == Virtual(ep)
<1>1. LedgerInv
  BY DEF TurnInv, FileInv, CountInv
<1>2. /\ SameEpoch(cursor, ep) => cursor # NoCursor /\ SameMarks(cursor, v)
      /\ v \in Cursor
      /\ \A i \in DOMAIN sent : ~SameEpoch(cursor, ep) => sent[i].rev < v.rev
  BY <1>1, VirtualMarks, VirtualBooks
<1> HIDE DEF v
<1>3. CASE cursor = NoCursor
  <2>1. DOMAIN sent = {}
    BY <1>1, <1>3 DEF LedgerInv, Ledger
  <2> QED BY <2>1 DEF Attended, Blocks, Restores, Named, Renamed, v
<1>4. CASE cursor # NoCursor /\ SameEpoch(cursor, ep)
  <2>1. Attended(sent, cursor)
    BY <1>4 DEF TurnInv
  <2> QED BY <1>2, <1>4, <2>1, AttendedSame DEF SameMarks, v
<1>5. CASE cursor # NoCursor /\ ~SameEpoch(cursor, ep)
  <2>1. Attended(sent, cursor)
    BY <1>5 DEF TurnInv
  <2>2. \A i \in DOMAIN sent : sent[i].rev # v.rev
    <3>1. sent \in Seq(Entry)
      BY <1>1 DEF LedgerInv, CursorInv, Types, Entry
    <3>2. \A i \in DOMAIN sent : sent[i].rev \in Nat
      BY <3>1, EntryTypes
    <3> QED BY <1>2, <1>5, <3>2 DEF Cursor
  <2> QED BY <2>1, <2>2, AttendedNewer DEF v
<1> QED BY <1>3, <1>4, <1>5

LEMMA WriteClaimTurns ==
  ASSUME TurnInv, FileInv', WriteClaim
  PROVE  TurnInv'
<1>1. /\ UNCHANGED scene /\ txn # NoTxn
      /\ txn.hook.op \in {"prompt", "tool", "stop"}
  BY DEF WriteClaim, Informational
<1> DEFINE h == txn.hook
           ep == txn.epoch
           sc == txn.scan
           t == txn.turn
           c == Claim(h, ep, sc, t)
           v == Virtual(ep)
<1>2. cursor' = c.cursor /\ sent' = sent \o c.sent
  BY DEF WriteClaim
<1>3. /\ LedgerInv /\ CursorInv /\ Types /\ ep \in Epoch /\ sc \in ScanType /\ t \in Nat
      /\ sent \in Seq(Entry) /\ h.op \in {"prompt", "tool", "stop"}
  BY <1>1 DEF TurnInv, FileInv, CountInv, LedgerInv, CursorInv, Types, Txn, Entry
<1>4. \A f \in Feeds : v.pos[f] <= sc.len[f] /\ sc.len[f] <= Len(feed[f])
  <2>1. /\ \A f \in Feeds : sc.len[f] <= Len(feed[f]) /\ sc.len[f] \in Nat
        /\ cursor # NoCursor => \A f \in Feeds : cursor.pos[f] <= sc.len[f]
    BY <1>1, <1>3 DEF CursorInv, ScanCurrent, ScanType
  <2>2. \/ cursor # NoCursor /\ v.pos = cursor.pos
        \/ \A f \in Feeds : v.pos[f] = 0
    BY <1>3, VirtualProperties
  <2> QED BY <2>1, <2>2
<1>5. \/ c.sent = <<>> /\ SameMarks(v, c.cursor)
      \/ \E e : c.sent = <<e>> /\ Claimed(v, c.cursor, e, h, ep, t)
  BY <1>1, <1>3, ClaimMarks
<1>6. c.cursor \in Cursor /\ v \in Cursor
  BY <1>3, <1>4, ClaimProperties, VirtualProperties
<1>7. \A i \in DOMAIN sent : Booked(sent[i], v)
  BY <1>3, VirtualBooks
<1>8. ~Claude => Attended(sent, v)
  BY <1>3, VirtualTurns
<1> HIDE DEF h, ep, sc, t, c, v
<1>9. PICK d \in Cursor : cursor' = d /\ d = c.cursor
  BY <1>2, <1>6
<1>10. CASE c.sent = <<>> /\ SameMarks(v, d)
  <2>1. sent' = sent
    BY <1>2, <1>3, <1>10
  <2>2. ~Claude => Attended(sent, d)
    BY <1>8, <1>10, AttendedSame DEF SameMarks
  <2>3. PICK S : S = sent
    OBVIOUS
  <2> QED BY <1>1, <1>9, <2>1, <2>2, <2>3, TurnsWritten
<1>11. CASE \E e : c.sent = <<e>> /\ Claimed(v, d, e, h, ep, t)
  <2>1. PICK e : c.sent = <<e>> /\ Claimed(v, d, e, h, ep, t)
    BY <1>11
  <2>2. e \in Entry
    BY <2>1 DEF Claimed, Entry
  <2>3. sent' = Append(sent, e)
    BY <1>2, <1>3, <2>1, <2>2
  <2>4. ~Claude => Attended(Append(sent, e), d)
    BY <1>3, <1>6, <1>7, <1>8, <2>1, <2>2, AttendedClaim
  <2>5. PICK S : S = Append(sent, e)
    OBVIOUS
  <2> QED BY <1>1, <1>9, <2>3, <2>4, <2>5, TurnsWritten
<1> QED BY <1>5, <1>9, <1>10, <1>11

LEMMA WriteReadTurns ==
  ASSUME TurnInv, FileInv', WriteRead
  PROVE  TurnInv'
<1>1. /\ UNCHANGED scene /\ txn # NoTxn
      /\ txn.hook.op \notin {"prompt", "tool", "stop"}
  BY DEF WriteRead, Informational
<1> DEFINE h == txn.hook
           ep == txn.epoch
           sc == txn.scan
           t == txn.turn
           v == Virtual(ep)
           R == ReadResult(h, ep, sc, t)
<1>2. /\ LedgerInv /\ Types /\ ep \in Epoch /\ t \in Nat /\ h \in HookCalls
      /\ sent \in Seq(Entry)
  BY <1>1 DEF TurnInv, FileInv, CountInv, LedgerInv, CursorInv, Types, Txn, Entry
<1>3. Forgotten = sent
  <2>1. ~(cursor # NoCursor /\ cursor.v = 1)
    BY <1>2 DEF LedgerInv, Ledger
  <2>2. Forgotten = [i \in DOMAIN sent |-> sent[i]]
    BY <2>1 DEF Forgotten
  <2> QED BY <1>2, <2>2
<1>4. IF R = {} THEN UNCHANGED <<cursor, sent>>
      ELSE \E c \in R : /\ cursor' = c
                        /\ sent' = sent \o
                             IF c.rev = v.rev THEN <<>>
                             ELSE <<[op |-> "read", rev |-> c.rev, count |-> 0,
                                     turn |-> c.informed, stage |-> "emitted"]>>
  BY <1>3 DEF WriteRead
<1>5. /\ v \in Cursor /\ \A i \in DOMAIN sent : Booked(sent[i], v)
  BY <1>2, VirtualBooks
<1>6. \A c \in R : ReadMarked(v, c, t)
  BY <1>1, <1>2, <1>5, ReadMarks
<1>7. ~Claude => Attended(sent, v)
  BY <1>2, VirtualTurns
<1> HIDE DEF h, ep, sc, t, v, R
<1>8. CASE R = {}
  <2>1. UNCHANGED <<cursor, sent>>
    BY <1>4, <1>8
  <2>2. ~Claude => Attended(sent, cursor) \/ cursor = NoCursor
    BY DEF TurnInv
  <2> QED BY <1>1, <2>1, TurnsAside
<1>9. CASE R # {}
  <2>1. PICK d \in R : /\ cursor' = d
                       /\ sent' = sent \o
                             IF d.rev = v.rev THEN <<>>
                             ELSE <<[op |-> "read", rev |-> d.rev, count |-> 0,
                                     turn |-> d.informed, stage |-> "emitted"]>>
    BY <1>4, <1>9
  <2>2. ReadMarked(v, d, t)
    BY <1>6
  <2>3. CASE SameMarks(v, d)
    <3>1. sent' = sent
      BY <1>2, <2>1, <2>3 DEF SameMarks
    <3>2. ~Claude => Attended(sent, d)
      BY <1>7, <2>3, AttendedSame DEF SameMarks
    <3>3. PICK S : S = sent
      OBVIOUS
    <3> QED BY <1>1, <2>1, <3>1, <3>2, <3>3, TurnsWritten
  <2>4. CASE d.rev = v.rev + 1
    <3> DEFINE e == [op |-> "read", rev |-> d.rev, count |-> 0,
                     turn |-> d.informed, stage |-> "emitted"]
    <3>1. v.rev \in Nat /\ d.rev = v.rev + 1 /\ d.rev # v.rev
      BY <1>5, <2>4 DEF Cursor
    <3>2. sent' = sent \o <<e>>
      BY <2>1, <3>1
    <3>3. e.op = "read" /\ (~Claude => e \in Entry)
      <4>1. ~Claude => d.informed = t
        BY <2>2, <3>1 DEF ReadMarked, SameMarks
      <4> QED BY <1>2, <3>1, <4>1 DEF Entry, Read
    <3> HIDE DEF e
    <3>4. ~Claude => sent \o <<e>> = Append(sent, e)
      BY <1>2, <3>3
    <3>5. \A i \in DOMAIN sent : sent[i].rev # d.rev
      <4>1. \A i \in DOMAIN sent : sent[i].rev \in Nat /\ sent[i].rev <= v.rev
        BY <1>2, <1>5, EntryTypes DEF Booked, Marked
      <4> QED BY <3>1, <4>1
    <3>6. ~Claude => Attended(Append(sent, e), d)
      BY <1>2, <1>7, <3>3, <3>5, AttendedRead
    <3>7. PICK S : S = sent \o <<e>>
      OBVIOUS
    <3> QED BY <1>1, <2>1, <3>2, <3>4, <3>6, <3>7, TurnsWritten
  <2> QED BY <2>2, <2>3, <2>4 DEF ReadMarked
<1> QED BY <1>8, <1>9

LEMMA InheritTurns ==
  ASSUME TurnInv, FileInv', Inherit
  PROVE  TurnInv'
<1>1. UNCHANGED scene /\ scene.version # 1 /\ sent = <<>>
  BY DEF Inherit, TurnInv, FileInv, CountInv, LedgerInv, Ledger
<1> DEFINE c == FirstCursor(epoch)
           count == Cardinality(Unread(c, Scan))
           ct == TurnOf(c, turn)
<1>2. PICK op \in {"none", "tool", "stop"} :
        /\ cursor' = [c EXCEPT !.v = scene.version,
                         !.stop = IF op = "stop" THEN c.rev ELSE 0,
                         !.high = IF op = "none" THEN 0 ELSE count,
                         !.last = IF op = "none" \/ scene.version = 1 THEN 0 ELSE ct]
        /\ sent' = IF op = "none" THEN sent ELSE
              Append(sent, [op |-> op, ws |-> epoch.ws, from |-> epoch.from,
                            rev |-> c.rev, count |-> count,
                            turn |-> IF scene.version = 1 THEN 0 ELSE ct,
                            stage |-> "emitted", before |-> <<0, 0>>,
                            after |-> <<count, ct>>])
  BY DEF Inherit
<1> HIDE DEF count, ct
<1> DEFINE s == IF op = "stop" THEN c.rev ELSE 0
           g == IF op = "none" THEN 0 ELSE count
           l == IF op = "none" \/ scene.version = 1 THEN 0 ELSE ct
           d == [c EXCEPT !.v = scene.version, !.stop = s, !.high = g, !.last = l]
           e == [op |-> op, ws |-> epoch.ws, from |-> epoch.from,
                 rev |-> c.rev, count |-> count,
                 turn |-> IF scene.version = 1 THEN 0 ELSE ct,
                 stage |-> "emitted", before |-> <<0, 0>>, after |-> <<count, ct>>]
           S == IF op = "none" THEN <<>> ELSE <<e>>
<1>3. cursor' = d /\ sent' = S
  BY <1>1, <1>2
<1>4. op # "none" => d.last = ct
  BY <1>1 DEF FirstCursor
<1>5. e.op = op /\ e.turn = ct /\ ~Revocable(e)
  BY <1>1 DEF Revocable
<1>6. \A i \in DOMAIN S : i = 1 /\ op # "none" /\ S[i] = e
  OBVIOUS
<1> HIDE DEF S, e, d
<1>7. Attended(S, d)
  <2>1. Blocks(S) /\ Restores(S)
    BY <1>6 DEF Blocks, Restores
  <2>2. Named(S, d) /\ Renamed(S, d)
    BY <1>4, <1>5, <1>6 DEF Named, Renamed
  <2> QED BY <2>1, <2>2 DEF Attended
<1> QED BY <1>1, <1>3, <1>7, TurnsWritten

LEMMA ExpireTurns ==
  ASSUME TurnInv, FileInv', Expire
  PROVE  TurnInv'
<1>1. UNCHANGED <<scene, sent>> /\ cursor # NoCursor
  BY DEF Expire
<1>2. cursor \in Cursor
  BY <1>1 DEF TurnInv, FileInv, CountInv, LedgerInv, CursorInv, Types
<1>3. PICK ps : cursor' = [cursor EXCEPT !.pending = ps]
  BY <1>2 DEF Expire, Cursor
<1> DEFINE d == [cursor EXCEPT !.pending = ps]
<1>4. d.rev = cursor.rev /\ d.high = cursor.high /\ d.last = cursor.last
  BY <1>2 DEF Cursor
<1> HIDE DEF d
<1>5. ~Claude => Attended(sent, d)
  BY <1>1, <1>4, AttendedSame DEF TurnInv
<1>6. PICK S : S = sent
  OBVIOUS
<1>7. cursor' = d
  BY <1>3 DEF d
<1> QED BY <1>1, <1>5, <1>6, <1>7, TurnsWritten

LEMMA SettleTurns ==
  ASSUME TurnInv, FileInv', NEW i \in DOMAIN sent, Emit(i) \/ Fail(i)
  PROVE  TurnInv'
<1>1. UNCHANGED <<scene, cursor>> /\ cursor # NoCursor
  BY DEF Emit, Fail, TurnInv, FileInv, CountInv, LedgerInv, Ledger
<1>2. sent \in Seq(Entry) /\ sent[i] \in Delivery
  <2>1. sent[i].stage = "claimed"
    BY DEF Emit, Fail
  <2>2. sent \in Seq(Entry) /\ sent[i] \in Entry
    BY DEF TurnInv, FileInv, CountInv, LedgerInv, CursorInv, Types, Entry
  <2> QED BY <2>1, <2>2 DEF Entry, Read
<1>3. PICK stage \in {"emitted", "failed"} :
        /\ sent[i].stage = "claimed" /\ (stage = "failed" => sent[i].op = "stop")
        /\ sent' = [sent EXCEPT ![i].stage = stage]
  BY DEF Emit, Fail, Settle
<1> DEFINE e == [sent[i] EXCEPT !.stage = stage]
<1>4. Settled(sent[i], e) /\ e.stage = stage /\ e.op = sent[i].op
  <2>1. Settled(sent[i], e) /\ e.stage = stage
    BY <1>2, <1>3, SettledStage
  <2> QED BY <2>1 DEF Settled
<1>5. sent' = [sent EXCEPT ![i] = e]
  BY <1>2, <1>3
<1> HIDE DEF e
<1>6. Standing(sent[i]) => Standing(e)
  BY <1>4 DEF Standing
<1> DEFINE S == [sent EXCEPT ![i] = e]
<1>7. ~Claude => Attended(S, cursor)
  BY <1>1, <1>2, <1>4, <1>6, AttendedSettles DEF TurnInv, Attended
<1> HIDE DEF S
<1>8. sent' = S
  BY <1>5 DEF S
<1>9. PICK d : d = cursor
  OBVIOUS
<1> QED BY <1>1, <1>7, <1>8, <1>9, TurnsWritten

(* A rollback restores the turn that was told last before the Stop, or leaves
   the one that was told after it. *)
LEMMA RollbackTurns ==
  ASSUME TurnInv, FileInv', NEW i \in DOMAIN sent, Rollback(i)
  PROVE  TurnInv'
<1> DEFINE r == sent[i]
           e == [r EXCEPT !.stage = "void"]
           S == [sent EXCEPT ![i] = e]
<1>1. /\ UNCHANGED scene /\ r.stage = "failed"
      /\ sent' = [sent EXCEPT ![i].stage = "void"]
  BY DEF Rollback, Settle
<1>2. /\ CountInv /\ LedgerInv /\ cursor # NoCursor /\ cursor \in Cursor
      /\ sent \in Seq(Entry) /\ Proper(sent, cursor)
      /\ History(sent) /\ \A k \in DOMAIN sent : Booked(sent[k], cursor)
      /\ ~Claude => Attended(sent, cursor)
  BY DEF TurnInv, FileInv, CountInv, LedgerInv, CursorInv, Types, Entry, Ledger
<1>3. r \in Delivery /\ r.op = "stop"
  <2>1. r \in Entry /\ Staged(r)
    BY <1>2 DEF Booked
  <2> QED BY <1>1, <2>1 DEF Entry, Read, Staged, Live
<1>4. Settled(r, e)
  <2>1. "void" \in {"emitted", "failed", "void"}
    OBVIOUS
  <2> QED BY <1>1, <1>3, <2>1, SettledStage
<1>5. sent' = S
  BY <1>1
<1>6. Booked(r, cursor) /\ Revocable(r) /\ Standing(r)
  BY <1>1, <1>2, <1>3 DEF Revocable, Standing
<1>7. ASSUME ~Claude
      PROVE  /\ Blocks(S) /\ Restores(S)
             /\ cursor.rev # r.rev => Named(S, cursor)
             /\ Renamed(S, cursor)
  <2> HIDE DEF e, r, S
  <2>1. Attended(sent, cursor)
    BY <1>2, <1>7
  <2> QED BY <1>2, <1>4, <2>1, AttendedSettles DEF Attended, r, S
<1>8. e.stage = "void"
  BY <1>3 DEF Delivery
<1>9. /\ DOMAIN S = DOMAIN sent /\ Len(S) = Len(sent) /\ DOMAIN sent = 1 .. Len(sent)
      /\ Len(sent) \in Nat /\ i \in Nat
      /\ \A k \in DOMAIN sent : S[k] = IF k = i THEN e ELSE sent[k]
  BY <1>2
<1> HIDE DEF e, S
<1>10. ASSUME NEW k \in DOMAIN S
       PROVE  S[k].op = sent[k].op /\ S[k].rev = sent[k].rev /\ S[k].turn = sent[k].turn
  BY <1>4, <1>9 DEF Settled
<1>11. ASSUME NEW n \in 1 .. Len(sent) + 1, NEW k \in DOMAIN sent, Overtaken(sent, k, n)
       PROVE  Overtaken(S, k, Len(S) + 1)
  <2>1. \A m \in k .. n - 1 : m \in DOMAIN S
    BY <1>9
  <2>2. k \in Nat /\ n \in Nat /\ Len(S) + 1 \in Nat /\ n <= Len(S) + 1
    BY <1>9
  <2> QED BY <1>10, <1>11, <2>1, <2>2, OvertakenStays
<1>12. ASSUME NEW k \in DOMAIN sent, k # i, sent[k].rev = r.rev
       PROVE  ~Standing(sent[k]) /\ ~Revocable(sent[k])
  <2> HIDE DEF r
  <2> QED BY <1>2, <1>6, <1>12, OneStops DEF r
<1> DEFINE met == SameEpoch(cursor, r) /\ cursor.rev = r.rev /\ cursor.stop = r.rev
<1>13. cursor.rev = r.rev => met
  BY <1>2, <1>6, StopMet
<1>14. CASE ~met
  <2>1. cursor' = cursor /\ cursor.rev # r.rev
    BY <1>13, <1>14 DEF Rollback
  <2>2. ~Claude => Attended(S, cursor)
    BY <1>7, <2>1 DEF Attended
  <2>3. PICK d : d = cursor
    OBVIOUS
  <2> QED BY <1>1, <1>5, <2>1, <2>2, <2>3, TurnsWritten
<1>15. ASSUME NEW d, cursor' = d, met, d.rev = cursor.rev,
              \/ cursor.high = r.after[1] /\ d.last = r.before[2]
              \/ cursor.high # r.after[1] /\ d.last = cursor.last
       PROVE  TurnInv'
  <2>1. ASSUME ~Claude PROVE Renamed(S, d)
    <3>1. \A k \in DOMAIN S : ~(Revocable(S[k]) /\ S[k].rev = d.rev)
      <4>1. ~Revocable(S[i])
        BY <1>8, <1>9 DEF Revocable
      <4> QED BY <1>9, <1>12, <1>15, <4>1
    <3> QED BY <3>1 DEF Renamed
  <2>2. ASSUME ~Claude, NEW k \in DOMAIN sent, sent[k].op \in Informational,
               sent[k].rev = d.rev
        PROVE  d.last = sent[k].turn \/ Overtaken(S, k, Len(S) + 1)
    <3>1. Attended(sent, cursor) /\ k # i /\ k \in Nat /\ i \in 1 .. Len(sent) + 1
          /\ sent[k].rev = r.rev
      BY <1>2, <1>3, <1>9, <1>15, <2>2 DEF Informational
    <3>2. CASE cursor.high = r.after[1] /\ d.last = r.before[2]
      <4>1. k < i
        <5> SUFFICES ASSUME i < k PROVE FALSE
          BY <1>9, <3>1
        <5>1. Pair(r, sent[k])
          BY <1>2, <1>9, <3>1 DEF History
        <5>2. Live(sent[k])
          BY <1>2, <2>2 DEF Booked, Staged, Informational
        <5>3. r.after[1] < sent[k].count
          BY <1>6, <3>1, <5>1, <5>2 DEF Pair, Told
        <5>4. sent[k].count <= cursor.high
          BY <1>2, <1>15, <2>2, <5>2 DEF Booked, Marked
        <5>5. sent[k].count \in Nat /\ r.after[1] \in Nat
          <6>1. sent[k] \in Entry
            BY <1>2
          <6> QED BY <1>3, <6>1, EntryTypes DEF Delivery
        <5> QED BY <3>2, <5>3, <5>4, <5>5
      <4>2. k \in 1 .. i - 1
        BY <1>9, <4>1
      <4>3. r.before[2] = sent[k].turn \/ Overtaken(sent, k, i)
        BY <1>6, <2>2, <3>1, <4>2 DEF Attended, Restores
      <4> QED BY <1>11, <3>1, <3>2, <4>3
    <3>3. CASE cursor.high # r.after[1] /\ d.last = cursor.last
      <4>1. PICK l \in i + 1 .. Len(sent) :
              sent[l].op \in Informational /\ sent[l].rev = cursor.rev
              /\ sent[l].turn = cursor.last
        BY <1>6, <1>15, <3>1, <3>3 DEF Attended, Renamed
      <4>2. CASE k < i
        <5> SUFFICES ASSUME d.last # sent[k].turn PROVE Overtaken(S, k, Len(S) + 1)
          OBVIOUS
        <5>1. l \in DOMAIN S /\ l \in k + 1 .. (Len(S) + 1) - 1
          BY <1>9, <4>1, <4>2, <3>1
        <5>2. S[l].op \in Informational /\ S[l].rev = S[k].rev /\ S[l].turn # S[k].turn
          BY <1>9, <1>10, <1>15, <2>2, <3>3, <4>1, <5>1
        <5> QED BY <5>1, <5>2 DEF Overtaken
      <4>3. CASE i < k
        <5>1. \A m \in k + 1 .. Len(sent) : ~(Standing(sent[m]) /\ sent[m].rev = cursor.rev)
          <6> SUFFICES ASSUME NEW m \in k + 1 .. Len(sent), Standing(sent[m]),
                              sent[m].rev = cursor.rev
                       PROVE  FALSE
            OBVIOUS
          <6>1. m \in DOMAIN sent /\ m # i
            BY <1>9, <3>1, <4>3
          <6> QED BY <1>12, <1>15, <6>1
        <5>2. cursor.last = sent[k].turn \/ Overtaken(sent, k, Len(sent) + 1)
          BY <1>15, <2>2, <3>1, <5>1 DEF Attended, Named
        <5>3. Len(sent) + 1 \in 1 .. Len(sent) + 1
          BY <1>9
        <5> QED BY <1>11, <3>3, <5>2, <5>3
      <4> QED BY <1>9, <3>1, <4>2, <4>3
    <3> QED BY <1>15, <3>2, <3>3
  <2>3. ~Claude => Named(S, d)
    BY <1>9, <1>10, <2>2 DEF Named
  <2>4. ~Claude => Attended(S, d)
    BY <1>7, <2>1, <2>3 DEF Attended
  <2> QED BY <1>1, <1>5, <1>15, <2>4, TurnsWritten
<1>16. CASE met
  <2>1. cursor.high = r.after[1] => cursor.last = r.after[2]
    BY <1>2, <1>6, <1>16 DEF Proper, Backed
  <2>2. r.after = <<r.after[1], r.after[2]>>
    BY <1>3 DEF Delivery
  <2>3. CASE cursor.high = r.after[1]
    <3> DEFINE d == [cursor EXCEPT !.stop = 0, !.high = r.before[1], !.last = r.before[2]]
    <3>1. <<cursor.high, cursor.last>> = r.after
      BY <2>1, <2>2, <2>3
    <3>2. cursor' = d
      BY <1>16, <3>1 DEF Rollback
    <3>3. d.rev = cursor.rev /\ d.last = r.before[2]
      BY <1>2 DEF Cursor
    <3> HIDE DEF d
    <3> QED BY <1>15, <1>16, <2>3, <3>2, <3>3
  <2>4. CASE cursor.high # r.after[1]
    <3> DEFINE d == [cursor EXCEPT !.stop = 0]
    <3>1. <<cursor.high, cursor.last>> # r.after
      BY <2>2, <2>4
    <3>2. cursor' = d
      BY <1>16, <3>1 DEF Rollback
    <3>3. d.rev = cursor.rev /\ d.last = cursor.last
      BY <1>2 DEF Cursor
    <3> HIDE DEF d
    <3> QED BY <1>15, <1>16, <2>4, <3>2, <3>3
  <2> QED BY <2>3, <2>4
<1> QED BY <1>14, <1>16

LEMMA TurnInvStep ==
  ASSUME TurnInv, [Next]_vars
  PROVE  TurnInv'
<1>1. FileInv'
  BY FileInvStep DEF TurnInv
<1>2. CASE UNCHANGED <<scene, cursor, sent>>
  BY <1>1, <1>2, TurnsAside
<1>3. CASE \/ \E f \in scene.feeds : Publish(f) \/ Change(f)
           \/ Tick
           \/ \E w \in scene.workstreams : Move(w)
           \/ \E t \in Tools : ReadCommand(t)
           \/ \E h \in HookCalls : Open(h)
           \/ Check
           \/ UNCHANGED vars
  BY <1>2, <1>3 DEF Publish, Change, Tick, Move, ReadCommand, Open, Check, vars
<1>4. CASE Expire \/ WriteClaim \/ WriteRead \/ Inherit
  BY <1>1, <1>4, ExpireTurns, WriteClaimTurns, WriteReadTurns, InheritTurns
<1>5. ASSUME NEW i \in DOMAIN sent, Emit(i) \/ Fail(i) \/ Rollback(i) PROVE TurnInv'
  BY <1>1, <1>5, SettleTurns, RollbackTurns
<1> QED BY <1>3, <1>4, <1>5 DEF Next

-----------------------------------------------------------------------------
(* A Stop never blocks a Codex turn that a read informed at the revision it
   would block for, nor one that was told, unless a hook of another turn was
   told in between: whatever turns the hooks are of, and whichever Stops are
   rolled back. *)
THEOREM StopSpares == Spec /\ scene.version # 1 => []StopSparesInformedTurn
<1>1. TurnInv /\ [Next]_vars => TurnInv'
  BY TurnInvStep
<1>2. Init /\ scene.version # 1 => TurnInv
  BY InitFileInv DEF Init, TurnInv
<1> QED BY <1>1, <1>2, TurnInvSpares, PTL DEF Spec

=============================================================================
