------------------------- MODULE CodexIngestProofs -------------------------
(***************************************************************************)
(* Proofs about the publication of a Codex session (CodexIngest).          *)
(*                                                                         *)
(* Most of what a run publishes is computed by reading lines one by one,   *)
(* so the facts about Replay, about a run that resumes and about Fresh are *)
(* proved by induction, from the least line at which they would fail.      *)
(* Knows says what a normalizer that has read k lines knows of them,       *)
(* Resumes that one resumed from a checkpoint has what the other has       *)
(* beyond it.  On these rests the invariant of the specification, Inv, and *)
(* from it follow the properties that TLC checks in the run ingest.        *)
(***************************************************************************)
EXTENDS CodexIngest, WellFoundedInduction, FiniteSetTheorems, SequenceTheorems, TLAPS

-----------------------------------------------------------------------------
(* Induction and recursion *)

LEMMA LeastNumber ==
  ASSUME NEW T, T \subseteq Nat, T # {}
  PROVE  \E x \in T : \A y \in T : x <= y
<1>1. PICK R : R = {r \in Nat \X Nat : r[1] < r[2]}
  OBVIOUS
<1>2. OpToRel(<, Nat) = R
  BY <1>1 DEF OpToRel
<1>3. IsWellFoundedOn(R, Nat)
  BY <1>2, NatLessThanWellFounded
<1>4. PICK x \in T : \A y \in T : ~(<<y, x>> \in R)
  BY <1>3, WFMin
<1>5. ASSUME NEW y \in T PROVE x <= y
  <2>1. x \in Nat /\ y \in Nat
    OBVIOUS
  <2>2. <<y, x>> \in Nat \X Nat /\ <<y, x>>[1] = y /\ <<y, x>>[2] = x
    BY <2>1
  <2>3. ~(y < x)
    BY <1>1, <1>4, <2>2
  <2> QED BY <2>1, <2>3
<1> QED BY <1>5

(* Reading is one line after the other. *)
LEMMA ReadForwardStep ==
  ASSUME NEW tr, NEW lines, NEW n, NEW first \in Nat \ {0}, NEW last \in Nat
  PROVE  ReadForward(tr, lines, n, first, last) =
            IF last < first THEN n
            ELSE Accept(tr, ReadForward(tr, lines, n, first, last - 1), lines[last], last)
<1> DEFINE Def(h, k) == IF k < first THEN n ELSE Accept(tr, h[k - 1], lines[k], k)
           Reads(h, m) == /\ h = [k \in 0 .. m |-> h[k]]
                          /\ \A k \in 0 .. m : h[k] = Def(h, k)
<1>1. \A m \in Nat : \E h : Reads(h, m)
  <2> DEFINE T == {m \in Nat : ~\E h : Reads(h, m)}
  <2> SUFFICES ASSUME T # {} PROVE FALSE
    OBVIOUS
  <2>1. PICK x \in T : \A y \in T : x <= y
    <3> HIDE DEF Reads
    <3> QED BY LeastNumber
  <2>2. CASE x = 0
    <3> DEFINE h == [k \in 0 .. x |-> n]
    <3>1. h = [k \in 0 .. x |-> h[k]] /\ \A k \in 0 .. x : h[k] = Def(h, k)
      BY <2>2
    <3> QED BY <2>1, <3>1
  <2>3. CASE x # 0
    <3>1. x - 1 \in Nat /\ x - 1 \notin T
      BY <2>1, <2>3
    <3>2. PICK h : Reads(h, x - 1)
      BY <3>1
    <3> DEFINE g == [k \in 0 .. x |-> IF k = x THEN Def(h, x) ELSE h[k]]
    <3>3. ASSUME NEW k \in 0 .. x PROVE g[k] = Def(g, k)
      <4>1. k - 1 \in 0 .. x - 1 \/ k = 0
        BY <3>1
      <4>2. k - 1 \in 0 .. x - 1 => g[k - 1] = h[k - 1]
        OBVIOUS
      <4>3. CASE k = x
        BY <4>1, <4>2, <4>3, <2>3
      <4>4. CASE k # x
        <5>1. k \in 0 .. x - 1
          BY <2>1, <4>4
        <5>2. h[k] = Def(h, k)
          BY <3>2, <5>1
        <5>3. g[k] = h[k]
          BY <4>4
        <5> QED BY <4>1, <4>2, <5>2, <5>3
      <4> QED BY <4>3, <4>4
    <3>4. g = [k \in 0 .. x |-> g[k]]
      OBVIOUS
    <3>5. Reads(g, x)
      BY <3>3, <3>4
    <3> HIDE DEF Reads
    <3> QED BY <2>1, <3>5
  <2> QED BY <2>2, <2>3
<1>2. ASSUME NEW m \in Nat, NEW l \in Nat, NEW h, NEW g, Reads(h, m), Reads(g, l),
             NEW k \in 0 .. m, k <= l
      PROVE  h[k] = g[k]
  <2> DEFINE T == {i \in 0 .. m : i <= l /\ h[i] # g[i]}
  <2> SUFFICES ASSUME T # {} PROVE FALSE
    BY <1>2
  <2>1. PICK x \in T : \A y \in T : x <= y
    <3>1. T \subseteq Nat
      OBVIOUS
    <3> HIDE DEF T
    <3> QED BY <3>1, LeastNumber
  <2>2. x \in 0 .. m /\ x \in 0 .. l /\ h[x] # g[x]
    BY <2>1
  <2>6. h[x] = Def(h, x) /\ g[x] = Def(g, x)
    BY <1>2, <2>2
  <2>3. x >= first
    BY <2>2, <2>6
  <2>4. x - 1 \in 0 .. m /\ x - 1 <= l /\ x - 1 \notin T
    BY <2>1, <2>2, <2>3
  <2>5. h[x - 1] = g[x - 1]
    BY <2>4
  <2> QED BY <2>2, <2>3, <2>5, <2>6
<1> DEFINE g == [k \in Nat |-> (CHOOSE h : Reads(h, k))[k]]
<1>3. g = [k \in Nat |-> Def(g, k)]
  <2> SUFFICES ASSUME NEW k \in Nat PROVE g[k] = Def(g, k)
    OBVIOUS
  <2> DEFINE H(i) == CHOOSE h : Reads(h, i)
  <2>1. \A i \in Nat : Reads(H(i), i)
    <3> HIDE DEF Reads
    <3> QED BY <1>1
  <2>2. g[k] = H(k)[k] /\ (k # 0 => g[k - 1] = H(k - 1)[k - 1])
    OBVIOUS
  <2>3. H(k)[k] = Def(H(k), k)
    BY <2>1
  <2>4. k # 0 => H(k)[k - 1] = H(k - 1)[k - 1]
    <3> SUFFICES ASSUME k # 0 PROVE H(k)[k - 1] = H(k - 1)[k - 1]
      OBVIOUS
    <3>1. k - 1 \in Nat /\ k - 1 \in 0 .. k /\ k - 1 <= k - 1
      OBVIOUS
    <3>2. Reads(H(k), k) /\ Reads(H(k - 1), k - 1)
      BY <2>1, <3>1
    <3> HIDE DEF Reads, H
    <3> QED BY <1>2, <3>1, <3>2
  <2> HIDE DEF H, g
  <2> QED BY <2>2, <2>3, <2>4
<1> DEFINE read == CHOOSE f : f = [k \in Nat |-> Def(f, k)]
<1>4. read = [k \in Nat |-> Def(read, k)]
  <2> HIDE DEF Def, g
  <2> QED BY <1>3
<1>5. \A l \in Nat : ReadForward(tr, lines, n, first, l) = read[l]
  BY DEF ReadForward
<1> HIDE DEF read
<1>6. read[last] = Def(read, last)
  BY <1>4
<1> QED BY <1>5, <1>6

LEMMA ReadNothing ==
  ASSUME NEW tr, NEW lines, NEW n, NEW first \in Nat \ {0}, NEW last \in Nat, last < first
  PROVE  ReadForward(tr, lines, n, first, last) = n
<1>1. ReadForward(tr, lines, n, first, last) =
            IF last < first THEN n
            ELSE Accept(tr, ReadForward(tr, lines, n, first, last - 1), lines[last], last)
  BY ReadForwardStep
<1> QED BY <1>1

LEMMA ReadOne ==
  ASSUME NEW tr, NEW lines, NEW n, NEW first \in Nat \ {0}, NEW last \in Nat, ~(last < first)
  PROVE  ReadForward(tr, lines, n, first, last)
            = Accept(tr, ReadForward(tr, lines, n, first, last - 1), lines[last], last)
<1>1. ReadForward(tr, lines, n, first, last) =
            IF last < first THEN n
            ELSE Accept(tr, ReadForward(tr, lines, n, first, last - 1), lines[last], last)
  BY ReadForwardStep
<1> QED BY <1>1

(* ... and so is sorting out what is new. *)
LEMMA FreshStep ==
  ASSUME NEW known, NEW batch, NEW last \in Nat
  PROVE  Fresh(known, batch, last) =
            IF last = 0 THEN <<>>
            ELSE IF batch[last].id \in known \union Ids(Fresh(known, batch, last - 1))
            THEN Fresh(known, batch, last - 1)
            ELSE Append(Fresh(known, batch, last - 1), batch[last])
<1> DEFINE Def(h, k) == IF k = 0 THEN <<>>
                        ELSE IF batch[k].id \in known \union Ids(h[k - 1]) THEN h[k - 1]
                        ELSE Append(h[k - 1], batch[k])
           Sorts(h, m) == /\ h = [k \in 0 .. m |-> h[k]]
                          /\ \A k \in 0 .. m : h[k] = Def(h, k)
<1>1. \A m \in Nat : \E h : Sorts(h, m)
  <2> DEFINE T == {m \in Nat : ~\E h : Sorts(h, m)}
  <2> SUFFICES ASSUME T # {} PROVE FALSE
    OBVIOUS
  <2>1. PICK x \in T : \A y \in T : x <= y
    <3> HIDE DEF Sorts
    <3> QED BY LeastNumber
  <2>2. CASE x = 0
    <3> DEFINE h == [k \in 0 .. x |-> <<>>]
    <3>1. h = [k \in 0 .. x |-> h[k]] /\ \A k \in 0 .. x : h[k] = Def(h, k)
      BY <2>2
    <3> QED BY <2>1, <3>1
  <2>3. CASE x # 0
    <3>1. x - 1 \in Nat /\ x - 1 \notin T
      BY <2>1, <2>3
    <3>2. PICK h : Sorts(h, x - 1)
      BY <3>1
    <3> DEFINE g == [k \in 0 .. x |-> IF k = x THEN Def(h, x) ELSE h[k]]
    <3>3. ASSUME NEW k \in 0 .. x PROVE g[k] = Def(g, k)
      <4>1. k - 1 \in 0 .. x - 1 \/ k = 0
        BY <3>1
      <4>2. k - 1 \in 0 .. x - 1 => g[k - 1] = h[k - 1]
        OBVIOUS
      <4>3. CASE k = x
        BY <4>1, <4>2, <4>3, <2>3
      <4>4. CASE k # x
        <5>1. k \in 0 .. x - 1
          BY <2>1, <4>4
        <5>2. h[k] = Def(h, k)
          BY <3>2, <5>1
        <5>3. g[k] = h[k]
          BY <4>4
        <5> QED BY <4>1, <4>2, <5>2, <5>3
      <4> QED BY <4>3, <4>4
    <3>4. g = [k \in 0 .. x |-> g[k]]
      OBVIOUS
    <3>5. Sorts(g, x)
      BY <3>3, <3>4
    <3> HIDE DEF Sorts
    <3> QED BY <2>1, <3>5
  <2> QED BY <2>2, <2>3
<1>2. ASSUME NEW m \in Nat, NEW l \in Nat, NEW h, NEW g, Sorts(h, m), Sorts(g, l),
             NEW k \in 0 .. m, k <= l
      PROVE  h[k] = g[k]
  <2> DEFINE T == {i \in 0 .. m : i <= l /\ h[i] # g[i]}
  <2> SUFFICES ASSUME T # {} PROVE FALSE
    BY <1>2
  <2>1. PICK x \in T : \A y \in T : x <= y
    <3>1. T \subseteq Nat
      OBVIOUS
    <3> HIDE DEF T
    <3> QED BY <3>1, LeastNumber
  <2>2. x \in 0 .. m /\ x \in 0 .. l /\ h[x] # g[x]
    BY <2>1
  <2>6. h[x] = Def(h, x) /\ g[x] = Def(g, x)
    BY <1>2, <2>2
  <2>3. x # 0
    BY <2>2, <2>6
  <2>4. x - 1 \in 0 .. m /\ x - 1 <= l /\ x - 1 \notin T
    BY <2>1, <2>2, <2>3
  <2>5. h[x - 1] = g[x - 1]
    BY <2>4
  <2> QED BY <2>2, <2>3, <2>5, <2>6
<1> DEFINE g == [k \in Nat |-> (CHOOSE h : Sorts(h, k))[k]]
<1>3. g = [k \in Nat |-> Def(g, k)]
  <2> SUFFICES ASSUME NEW k \in Nat PROVE g[k] = Def(g, k)
    <3> HIDE DEF Def
    <3> QED OBVIOUS
  <2> DEFINE H(i) == CHOOSE h : Sorts(h, i)
  <2>1. \A i \in Nat : Sorts(H(i), i)
    <3> HIDE DEF Sorts
    <3> QED BY <1>1
  <2>2. g[k] = H(k)[k] /\ (k # 0 => g[k - 1] = H(k - 1)[k - 1])
    OBVIOUS
  <2>3. H(k)[k] = Def(H(k), k)
    BY <2>1
  <2>4. k # 0 => H(k)[k - 1] = H(k - 1)[k - 1]
    <3> SUFFICES ASSUME k # 0 PROVE H(k)[k - 1] = H(k - 1)[k - 1]
      OBVIOUS
    <3>1. k - 1 \in Nat /\ k - 1 \in 0 .. k /\ k - 1 <= k - 1
      OBVIOUS
    <3>2. Sorts(H(k), k) /\ Sorts(H(k - 1), k - 1)
      BY <2>1, <3>1
    <3> HIDE DEF Sorts, H
    <3> QED BY <1>2, <3>1, <3>2
  <2> HIDE DEF H, g
  <2> QED BY <2>2, <2>3, <2>4
<1> DEFINE fresh == CHOOSE f : f = [k \in Nat |-> Def(f, k)]
<1>4. fresh = [k \in Nat |-> Def(fresh, k)]
  <2> HIDE DEF Def, g
  <2> QED BY <1>3
<1>5. \A l \in Nat : Fresh(known, batch, l) = fresh[l]
  BY DEF Fresh
<1> HIDE DEF fresh
<1>6. fresh[last] = Def(fresh, last)
  <2> HIDE DEF Def
  <2> QED BY <1>4
<1>7. last # 0 => last - 1 \in Nat
  OBVIOUS
<1> QED BY <1>5, <1>6, <1>7


-----------------------------------------------------------------------------
(* What a rollout says.  A turn starts once, and only the turn that started
   last can end. *)

Record == [kind : {"started", "usage", "ended"}, turn : Nat \union {NoTurn},
           at : Nat, native : Nat]

IsStart(S, i, t) == S[i].kind = "started" /\ S[i].turn = t
IsEnd(S, i, t) == S[i].kind = "ended" /\ S[i].turn = t

(* The turn that started in line i is open before line j. *)
Open(S, i, j) ==
    /\ i \in 1 .. j - 1 /\ S[i].kind = "started"
    /\ \A l \in i + 1 .. j - 1 : S[l].kind = "usage"

Ordered(S) ==
    /\ S \in Seq(Record)
    /\ \A j \in DOMAIN S : S[j].turn = NoTurn <=> S[j].kind = "usage"
    /\ \A j \in DOMAIN S : \A i \in 1 .. j - 1 :
          S[i].kind = "started" /\ S[j].kind = "started" => S[i].turn # S[j].turn
    /\ \A j \in DOMAIN S : S[j].kind = "ended" =>
          \E i \in 1 .. j - 1 : Open(S, i, j) /\ S[i].turn = S[j].turn

Builder == [sequence : Nat, started : Nat, emitted : BOOLEAN,
            usage : {NoUsage} \union [at : Nat, line : Nat]]

Turn == [id : Traces \X Nat, sequence : Nat, started : Nat, ended : Nat,
         refs : SUBSET (Traces \X Nat \X Nat),
         workstream : Workstreams \union {Unscoped}]

Evidence == [id : Traces \X Nat \X Nat, at : Nat, content : {NoTurn} \union Turn,
             workstream : Workstreams \union {Unscoped}]

Builders == UNION {[D -> Builder] : D \in SUBSET Nat}

Normalizer == [turns : Builders, current : Nat \union {NoTurn}, next : Nat,
               outTurns : Seq(Turn), outEvidence : Seq(Evidence)]

(* The normalizer n has read the first k lines of S from the beginning. *)
KnowsTurns(S, k, n) ==
    /\ \A i \in 1 .. k : S[i].kind = "started" => S[i].turn \in DOMAIN n.turns
    /\ \A t \in DOMAIN n.turns :
          /\ \E i \in 1 .. k : IsStart(S, i, t) /\ n.turns[t].started = S[i].native
          /\ n.turns[t].emitted <=> \E i \in 1 .. k : IsEnd(S, i, t)

KnowsCurrent(S, k, n) ==
    /\ \A i \in 1 .. k : Open(S, i, k + 1) => n.current = S[i].turn
    /\ n.current # NoTurn => \E i \in 1 .. k : Open(S, i, k + 1) /\ n.current = S[i].turn

KnowsUsage(S, k, n) ==
    \A t \in DOMAIN n.turns :
        \/ n.turns[t].usage = NoUsage
        \/ \E l \in 1 .. k : n.turns[t].usage = [at |-> S[l].at, line |-> l]

KnowsEnded(tr, S, k, n) ==
    /\ \A t \in DOMAIN n.turns : n.turns[t].emitted => <<tr, t>> \in Ids(n.outTurns)
    /\ \A i \in DOMAIN n.outTurns : \E t \in DOMAIN n.turns :
          /\ n.turns[t].emitted
          /\ n.outTurns[i].id = <<tr, t>> /\ n.outTurns[i].workstream = Unscoped
          /\ n.outTurns[i].started = n.turns[t].started
          /\ n.outTurns[i].refs \subseteq Ids(n.outEvidence)
          /\ \E l \in 1 .. k : IsEnd(S, l, t) /\ n.outTurns[i].ended = S[l].native
    /\ \A i, j \in DOMAIN n.outTurns : n.outTurns[i].id = n.outTurns[j].id => i = j

KnowsEvidence(tr, S, k, n) ==
    /\ \A i \in DOMAIN n.outEvidence : \E t \in DOMAIN n.turns : \E l \in 1 .. k :
          /\ n.turns[t].emitted
          /\ n.outEvidence[i] = [id |-> <<tr, t, l>>, at |-> S[l].at, content |-> NoTurn,
                                 workstream |-> Unscoped]
    /\ \A i, j \in DOMAIN n.outEvidence : n.outEvidence[i].id = n.outEvidence[j].id => i = j

Knows(tr, S, k, n) ==
    /\ n \in Normalizer
    /\ KnowsTurns(S, k, n) /\ KnowsCurrent(S, k, n) /\ KnowsUsage(S, k, n)
    /\ KnowsEnded(tr, S, k, n) /\ KnowsEvidence(tr, S, k, n)

LEMMA BuildersAre ==
  /\ \A f \in Builders : /\ f = [t \in DOMAIN f |-> f[t]] /\ DOMAIN f \subseteq Nat
                         /\ \A t \in DOMAIN f : f[t] \in Builder
  /\ \A D \in SUBSET Nat : [D -> Builder] \subseteq Builders
BY DEF Builders

(* The current turn is known, and has not ended. *)
LEMMA CurrentOpen ==
  ASSUME NEW tr \in Traces, NEW S, Ordered(S), NEW k \in 0 .. Len(S),
         NEW n, Knows(tr, S, k, n), n.current # NoTurn
  PROVE  n.current \in DOMAIN n.turns /\ ~n.turns[n.current].emitted
<1>1. \A i \in 1 .. k : i \in DOMAIN S
  BY DEF Ordered
<1>2. PICK i \in 1 .. k : Open(S, i, k + 1) /\ n.current = S[i].turn
  BY DEF Knows, KnowsCurrent
<1>3. n.current \in DOMAIN n.turns
  BY <1>2 DEF Knows, KnowsTurns, Open
<1>4. SUFFICES ASSUME NEW l \in 1 .. k, IsEnd(S, l, n.current) PROVE FALSE
  BY <1>3 DEF Knows, KnowsTurns
<1>5. l <= i
  BY <1>2, <1>4 DEF Open, IsEnd
<1>6. PICK h \in 1 .. l - 1 : Open(S, h, l) /\ S[h].turn = S[l].turn
  BY <1>1, <1>4 DEF Ordered, IsEnd
<1>7. h \in 1 .. i - 1 /\ S[h].turn = S[i].turn /\ S[h].kind = "started"
  BY <1>2, <1>4, <1>5, <1>6 DEF Open, IsEnd
<1> QED BY <1>1, <1>2, <1>7 DEF Ordered, Open

(* The facts about a normalizer that the steps start from. *)
LEMMA Facts ==
  ASSUME NEW tr \in Traces, NEW S, Ordered(S), NEW k \in Nat, k + 1 \in DOMAIN S,
         NEW n, Knows(tr, S, k, n)
  PROVE  /\ n \in Normalizer /\ n.turns \in Builders /\ DOMAIN n.turns \subseteq Nat
         /\ n.turns = [t \in DOMAIN n.turns |-> n.turns[t]]
         /\ \A t \in DOMAIN n.turns : n.turns[t] \in Builder
         /\ NoTurn \notin DOMAIN n.turns /\ S[k + 1] \in Record
         /\ \A i \in 1 .. k : i \in DOMAIN S /\ S[i] \in Record
         /\ n.current # NoTurn =>
               n.current \in DOMAIN n.turns /\ ~n.turns[n.current].emitted
<1>1. n \in Normalizer /\ n.turns \in Builders
  BY DEF Knows, Normalizer
<1>2. /\ DOMAIN n.turns \subseteq Nat
      /\ n.turns = [t \in DOMAIN n.turns |-> n.turns[t]]
      /\ \A t \in DOMAIN n.turns : n.turns[t] \in Builder
  BY <1>1, BuildersAre
<1>3. NoTurn \notin DOMAIN n.turns
  BY <1>2, IngestAssumption
<1>4. S[k + 1] \in Record /\ \A i \in 1 .. k : i \in DOMAIN S /\ S[i] \in Record
  BY DEF Ordered
<1>5. n.current # NoTurn => n.current \in DOMAIN n.turns /\ ~n.turns[n.current].emitted
  <2>1. k \in 0 .. Len(S)
    BY DEF Ordered
  <2> QED BY <2>1, CurrentOpen
<1> QED BY <1>1, <1>2, <1>3, <1>4, <1>5


LEMMA ConcatIs ==
  ASSUME NEW X, NEW a \in Seq(X), NEW b \in Seq(X)
  PROVE  /\ a \o b \in Seq(X) /\ Len(a \o b) = Len(a) + Len(b)
         /\ \A i \in 1 .. Len(a) : (a \o b)[i] = a[i]
         /\ \A i \in 1 .. Len(b) : (a \o b)[Len(a) + i] = b[i]
OBVIOUS

LEMMA IdsConcat ==
  ASSUME NEW X, NEW a \in Seq(X), NEW b \in Seq(X)
  PROVE  Ids(a \o b) = Ids(a) \union Ids(b)
<1>1. /\ a \o b \in Seq(X) /\ Len(a \o b) = Len(a) + Len(b)
      /\ \A i \in 1 .. Len(a) : (a \o b)[i] = a[i]
      /\ \A i \in 1 .. Len(b) : (a \o b)[Len(a) + i] = b[i]
  BY ConcatIs
<1>2. DOMAIN a = 1 .. Len(a) /\ DOMAIN b = 1 .. Len(b) /\ DOMAIN (a \o b) = 1 .. Len(a) + Len(b)
  BY <1>1
<1>3. ASSUME NEW x \in Ids(a \o b) PROVE x \in Ids(a) \union Ids(b)
  <2>1. PICK i \in 1 .. Len(a) + Len(b) : x = (a \o b)[i].id
    BY <1>2 DEF Ids
  <2>2. i \in 1 .. Len(a) \/ (i - Len(a) \in 1 .. Len(b) /\ i = Len(a) + (i - Len(a)))
    BY <2>1
  <2> QED BY <1>1, <1>2, <2>1, <2>2 DEF Ids
<1>4. ASSUME NEW x \in Ids(a) PROVE x \in Ids(a \o b)
  BY <1>1, <1>2 DEF Ids
<1>5. ASSUME NEW x \in Ids(b) PROVE x \in Ids(a \o b)
  <2>1. PICK i \in 1 .. Len(b) : x = b[i].id
    BY <1>2 DEF Ids
  <2>2. Len(a) + i \in 1 .. Len(a) + Len(b)
    OBVIOUS
  <2> QED BY <1>1, <1>2, <2>1, <2>2 DEF Ids
<1> QED BY <1>3, <1>4, <1>5

LEMMA IdsAppend ==
  ASSUME NEW X, NEW a \in Seq(X), NEW x \in X
  PROVE  Ids(Append(a, x)) = Ids(a) \union {x.id}
<1>1. /\ DOMAIN Append(a, x) = DOMAIN a \union {Len(a) + 1}
      /\ \A i \in DOMAIN a : Append(a, x)[i] = a[i]
      /\ Append(a, x)[Len(a) + 1] = x
  OBVIOUS
<1> QED BY <1>1 DEF Ids

(* task_started: a turn that is new *)
LEMMA StartIs ==
  ASSUME NEW n \in Normalizer, NEW r \in Record, r.turn \in Nat, r.turn \notin DOMAIN n.turns,
         NEW m, m = StartTurn(n, r)
  PROVE  /\ m \in Normalizer /\ m.current = r.turn /\ m.next = n.next + 1
         /\ m.outTurns = n.outTurns /\ m.outEvidence = n.outEvidence
         /\ DOMAIN m.turns = DOMAIN n.turns \union {r.turn}
         /\ \A t \in DOMAIN n.turns : m.turns[t] = n.turns[t]
         /\ m.turns[r.turn] = [sequence |-> n.next, started |-> r.native,
                               usage |-> NoUsage, emitted |-> FALSE]
<1> DEFINE b == [sequence |-> n.next, started |-> r.native, usage |-> NoUsage,
                 emitted |-> FALSE]
           f == [t \in DOMAIN n.turns \union {r.turn} |->
                    IF t = r.turn THEN b ELSE n.turns[t]]
<1>1. n.turns \in Builders /\ n.next \in Nat
  BY DEF Normalizer
<1>2. m = [n EXCEPT !.current = r.turn, !.turns = f, !.next = n.next + 1]
  BY DEF StartTurn, Normalizer
<1>3. b \in Builder
  BY <1>1 DEF Builder, Record
<1>4. DOMAIN f = {r.turn} \union DOMAIN n.turns
  OBVIOUS
<1>5. \A t \in DOMAIN f : f[t] = IF t = r.turn THEN b ELSE n.turns[t]
  OBVIOUS
<1>6. f = [t \in DOMAIN f |-> f[t]]
  OBVIOUS
<1>7. f \in Builders
  <2>1. DOMAIN f \in SUBSET Nat /\ \A t \in DOMAIN f : f[t] \in Builder
    BY <1>1, <1>3, <1>4, <1>5, BuildersAre
  <2> HIDE DEF f
  <2>2. f \in [DOMAIN f -> Builder]
    BY <1>6, <2>1
  <2> QED BY <2>1, <2>2, BuildersAre
<1> HIDE DEF f
<1>8. /\ m.turns = f /\ m.current = r.turn /\ m.next = n.next + 1
      /\ m.outTurns = n.outTurns /\ m.outEvidence = n.outEvidence
  BY <1>2 DEF Normalizer
<1>9. m \in Normalizer
  <2>1. f \in Builders /\ r.turn \in Nat \union {NoTurn} /\ n.next + 1 \in Nat
    BY <1>1, <1>7
  <2> QED BY <1>2, <2>1 DEF Normalizer
<1> QED BY <1>4, <1>5, <1>8, <1>9

LEMMA StartKnown ==
  ASSUME NEW tr \in Traces, NEW S, Ordered(S), NEW k \in Nat, k + 1 \in DOMAIN S,
         NEW n, Knows(tr, S, k, n), S[k + 1].kind = "started",
         NEW m, m = StartTurn(n, S[k + 1])
  PROVE  /\ Knows(tr, S, k + 1, m)
         /\ S[k + 1].turn \in Nat /\ S[k + 1].turn \notin DOMAIN n.turns
<1> DEFINE r == S[k + 1]
<1>1. /\ n \in Normalizer /\ r \in Record /\ DOMAIN n.turns \subseteq Nat
      /\ \A i \in 1 .. k : i \in DOMAIN S /\ S[i] \in Record
  BY Facts
<1>2. r.turn \in Nat
  BY <1>1 DEF Ordered, Record
<1>3. r.turn \notin DOMAIN n.turns
  <2> SUFFICES ASSUME r.turn \in DOMAIN n.turns PROVE FALSE
    OBVIOUS
  <2>1. PICK i \in 1 .. k : IsStart(S, i, r.turn)
    BY DEF Knows, KnowsTurns
  <2> QED BY <2>1 DEF Ordered, IsStart
<1>4. /\ m \in Normalizer /\ m.current = r.turn /\ m.next = n.next + 1
      /\ m.outTurns = n.outTurns /\ m.outEvidence = n.outEvidence
      /\ DOMAIN m.turns = DOMAIN n.turns \union {r.turn}
      /\ \A t \in DOMAIN n.turns : m.turns[t] = n.turns[t]
      /\ m.turns[r.turn] = [sequence |-> n.next, started |-> r.native,
                            usage |-> NoUsage, emitted |-> FALSE]
  BY <1>1, <1>2, <1>3, StartIs
<1>5. 1 .. k + 1 = 1 .. k \union {k + 1}
  OBVIOUS
<1>6. KnowsTurns(S, k + 1, m)
  <2>1. ASSUME NEW i \in 1 .. k + 1, S[i].kind = "started"
        PROVE  S[i].turn \in DOMAIN m.turns
    BY <1>4, <1>5, <2>1 DEF Knows, KnowsTurns
  <2>2. ASSUME NEW t \in DOMAIN n.turns
        PROVE  /\ \E i \in 1 .. k + 1 : IsStart(S, i, t) /\ m.turns[t].started = S[i].native
               /\ m.turns[t].emitted <=> \E i \in 1 .. k + 1 : IsEnd(S, i, t)
    <3>1. ~IsEnd(S, k + 1, t)
      BY DEF IsEnd
    <3> QED BY <1>4, <1>5, <3>1 DEF Knows, KnowsTurns
  <2>3. IsStart(S, k + 1, r.turn) /\ m.turns[r.turn].started = S[k + 1].native
    BY <1>4 DEF IsStart
  <2>4. ASSUME NEW i \in 1 .. k + 1, IsEnd(S, i, r.turn) PROVE FALSE
    <3>1. i \in 1 .. k
      BY <1>5, <2>4 DEF IsEnd
    <3>2. PICK h \in 1 .. i - 1 : Open(S, h, i) /\ S[h].turn = S[i].turn
      BY <1>1, <2>4, <3>1 DEF Ordered, IsEnd
    <3>3. h \in 1 .. k /\ S[h].kind = "started" /\ S[h].turn = r.turn
      BY <2>4, <3>1, <3>2 DEF Open, IsEnd
    <3> QED BY <1>3, <3>3 DEF Knows, KnowsTurns
  <2> QED BY <1>4, <2>1, <2>2, <2>3, <2>4 DEF KnowsTurns
<1>7. KnowsCurrent(S, k + 1, m)
  <2>1. \A i \in 1 .. k : ~Open(S, i, k + 2)
    BY DEF Open
  <2>2. Open(S, k + 1, k + 2)
    BY DEF Open
  <2> QED BY <1>4, <1>5, <2>1, <2>2 DEF KnowsCurrent
<1>8. KnowsUsage(S, k + 1, m)
  BY <1>4, <1>5 DEF Knows, KnowsUsage
<1>9. KnowsEnded(tr, S, k + 1, m)
  <2>1. KnowsEnded(tr, S, k, n)
    BY DEF Knows
  <2>2. \A t \in DOMAIN m.turns : m.turns[t].emitted => t \in DOMAIN n.turns /\ n.turns[t].emitted
    BY <1>4
  <2>3. \A i \in DOMAIN n.outTurns : \E t \in DOMAIN m.turns :
          /\ m.turns[t].emitted
          /\ n.outTurns[i].id = <<tr, t>> /\ n.outTurns[i].workstream = Unscoped
          /\ n.outTurns[i].started = m.turns[t].started
          /\ n.outTurns[i].refs \subseteq Ids(n.outEvidence)
          /\ \E l \in 1 .. k + 1 : IsEnd(S, l, t) /\ n.outTurns[i].ended = S[l].native
    <3> TAKE i \in DOMAIN n.outTurns
    <3>1. PICK t \in DOMAIN n.turns :
          /\ n.turns[t].emitted
          /\ n.outTurns[i].id = <<tr, t>> /\ n.outTurns[i].workstream = Unscoped
          /\ n.outTurns[i].started = n.turns[t].started
          /\ n.outTurns[i].refs \subseteq Ids(n.outEvidence)
          /\ \E l \in 1 .. k : IsEnd(S, l, t) /\ n.outTurns[i].ended = S[l].native
      BY <2>1 DEF KnowsEnded
    <3>2. t \in DOMAIN m.turns /\ m.turns[t] = n.turns[t]
      BY <1>4
    <3> QED BY <1>5, <3>1, <3>2
  <2> QED BY <1>4, <2>1, <2>2, <2>3 DEF KnowsEnded
<1>10. KnowsEvidence(tr, S, k + 1, m)
  BY <1>4, <1>5 DEF Knows, KnowsEvidence
<1> QED BY <1>2, <1>3, <1>4, <1>6, <1>7, <1>8, <1>9, <1>10 DEF Knows


LEMMA BuilderSet ==
  ASSUME NEW f \in Builders, NEW t \in DOMAIN f, NEW b \in Builder
  PROVE  /\ [f EXCEPT ![t] = b] \in Builders
         /\ DOMAIN [f EXCEPT ![t] = b] = DOMAIN f
         /\ \A u \in DOMAIN f : [f EXCEPT ![t] = b][u] = IF u = t THEN b ELSE f[u]
<1>1. f = [u \in DOMAIN f |-> f[u]] /\ DOMAIN f \subseteq Nat /\ \A u \in DOMAIN f : f[u] \in Builder
  BY BuildersAre
<1>2. f \in [DOMAIN f -> Builder]
  BY <1>1
<1>3. [f EXCEPT ![t] = b] \in [DOMAIN f -> Builder]
  BY <1>2
<1> QED BY <1>1, <1>3, BuildersAre

(* token_count, of the current turn *)
LEMMA UsageIs ==
  ASSUME NEW n \in Normalizer, n.current \in DOMAIN n.turns \union {NoTurn},
         NoTurn \notin DOMAIN n.turns,
         NEW r \in Record, r.turn = NoTurn, NEW line \in Nat,
         NEW m, m = AcceptUsage(n, r, line)
  PROVE  /\ m \in Normalizer /\ m.current = n.current /\ m.next = n.next
         /\ m.outTurns = n.outTurns /\ m.outEvidence = n.outEvidence
         /\ DOMAIN m.turns = DOMAIN n.turns
         /\ \A t \in DOMAIN n.turns :
               /\ t # n.current => m.turns[t] = n.turns[t]
               /\ t = n.current => m.turns[t].usage = [at |-> r.at, line |-> line]
               /\ m.turns[t].sequence = n.turns[t].sequence
               /\ m.turns[t].started = n.turns[t].started
               /\ m.turns[t].emitted = n.turns[t].emitted
<1>1. n.turns \in Builders
  BY DEF Normalizer
<1>2. CASE n.current = NoTurn
  <2>1. BuilderFor(n, r) = NoTurn
    BY <1>2 DEF BuilderFor
  <2>2. m = n
    BY <2>1 DEF AcceptUsage
  <2> QED BY <1>2, <2>2
<1>3. CASE n.current # NoTurn
  <2> DEFINE c == n.current
             u == [at |-> r.at, line |-> line]
             b == [sequence |-> n.turns[c].sequence, started |-> n.turns[c].started,
                   usage |-> u, emitted |-> n.turns[c].emitted]
  <2>1. c \in DOMAIN n.turns /\ BuilderFor(n, r) = c /\ c # NoTurn
    BY <1>3 DEF BuilderFor
  <2>2. m = [n EXCEPT !.turns[c].usage = u]
    BY <2>1 DEF AcceptUsage
  <2>3. n.turns[c] \in Builder
    BY <1>1, <2>1, BuildersAre
  <2>4. b \in Builder /\ b = [n.turns[c] EXCEPT !.usage = u]
    BY <2>3 DEF Builder, Record
  <2> DEFINE f == [n.turns EXCEPT ![c] = b]
  <2>5. /\ f \in Builders /\ DOMAIN f = DOMAIN n.turns
        /\ \A t \in DOMAIN n.turns : f[t] = IF t = c THEN b ELSE n.turns[t]
    BY <1>1, <2>1, <2>4, BuilderSet
  <2>6. m = [n EXCEPT !.turns = f]
    BY <1>1, <2>1, <2>2, <2>4 DEF Normalizer
  <2> HIDE DEF f
  <2>7. /\ m \in Normalizer /\ m.turns = f /\ m.current = n.current /\ m.next = n.next
        /\ m.outTurns = n.outTurns /\ m.outEvidence = n.outEvidence
    BY <2>5, <2>6 DEF Normalizer
  <2> QED BY <2>1, <2>5, <2>7
<1> QED BY <1>2, <1>3

LEMMA UsageKnown ==
  ASSUME NEW tr \in Traces, NEW S, Ordered(S), NEW k \in Nat, k + 1 \in DOMAIN S,
         NEW n, Knows(tr, S, k, n), S[k + 1].kind = "usage",
         NEW m, m = AcceptUsage(n, S[k + 1], k + 1)
  PROVE  Knows(tr, S, k + 1, m)
<1> DEFINE r == S[k + 1]
<1>1. /\ n \in Normalizer /\ r \in Record /\ DOMAIN n.turns \subseteq Nat
      /\ \A i \in 1 .. k : i \in DOMAIN S /\ S[i] \in Record
      /\ NoTurn \notin DOMAIN n.turns /\ n.current \in DOMAIN n.turns \union {NoTurn}
      /\ \A t \in DOMAIN n.turns : n.turns[t] \in Builder
  BY Facts
<1>2. r.turn = NoTurn
  BY DEF Ordered
<1>3. /\ m \in Normalizer /\ m.current = n.current /\ m.next = n.next
      /\ m.outTurns = n.outTurns /\ m.outEvidence = n.outEvidence
      /\ DOMAIN m.turns = DOMAIN n.turns
      /\ \A t \in DOMAIN n.turns :
            /\ t # n.current => m.turns[t] = n.turns[t]
            /\ t = n.current => m.turns[t].usage = [at |-> r.at, line |-> k + 1]
            /\ m.turns[t].started = n.turns[t].started
            /\ m.turns[t].emitted = n.turns[t].emitted
  <2>1. k + 1 \in Nat
    OBVIOUS
  <2> QED BY <1>1, <1>2, <2>1, UsageIs
<1>4. 1 .. k + 1 = 1 .. k \union {k + 1}
  OBVIOUS
<1>6. KnowsTurns(S, k + 1, m)
  <2>1. \A i \in 1 .. k + 1 : S[i].kind = "started" => S[i].turn \in DOMAIN m.turns
    BY <1>3, <1>4 DEF Knows, KnowsTurns
  <2>2. ASSUME NEW t \in DOMAIN n.turns
        PROVE  /\ \E i \in 1 .. k + 1 : IsStart(S, i, t) /\ m.turns[t].started = S[i].native
               /\ m.turns[t].emitted <=> \E i \in 1 .. k + 1 : IsEnd(S, i, t)
    <3>1. ~IsEnd(S, k + 1, t)
      BY DEF IsEnd
    <3> QED BY <1>3, <1>4, <3>1 DEF Knows, KnowsTurns
  <2> QED BY <1>3, <2>1, <2>2 DEF KnowsTurns
<1>7. KnowsCurrent(S, k + 1, m)
  <2>1. \A i \in 1 .. k : Open(S, i, k + 2) <=> Open(S, i, k + 1)
    <3> TAKE i \in 1 .. k
    <3>1. i + 1 .. k + 2 - 1 = (i + 1 .. k + 1 - 1) \union {k + 1}
      OBVIOUS
    <3>2. i \in 1 .. k + 2 - 1 /\ i \in 1 .. k + 1 - 1
      OBVIOUS
    <3> QED BY <3>1, <3>2 DEF Open
  <2>2. ~Open(S, k + 1, k + 2)
    BY DEF Open
  <2>3. k + 1 + 1 = k + 2
    OBVIOUS
  <2> QED BY <1>3, <1>4, <2>1, <2>2, <2>3 DEF Knows, KnowsCurrent
<1>8. KnowsUsage(S, k + 1, m)
  <2> SUFFICES ASSUME NEW t \in DOMAIN n.turns
               PROVE  \/ m.turns[t].usage = NoUsage
                      \/ \E l \in 1 .. k + 1 : m.turns[t].usage = [at |-> S[l].at, line |-> l]
    BY <1>3 DEF KnowsUsage
  <2>1. CASE t = n.current
    <3>1. m.turns[t].usage = [at |-> r.at, line |-> k + 1]
      BY <1>3, <2>1
    <3> QED BY <1>4, <3>1
  <2>2. CASE t # n.current
    <3>1. m.turns[t] = n.turns[t]
      BY <1>3, <2>2
    <3>2. KnowsUsage(S, k, n)
      BY DEF Knows
    <3> QED BY <1>4, <3>1, <3>2 DEF KnowsUsage
  <2> QED BY <2>1, <2>2
<1>9. KnowsEnded(tr, S, k + 1, m)
  <2>1. KnowsEnded(tr, S, k, n)
    BY DEF Knows
  <2>2. \A i \in DOMAIN n.outTurns : \E t \in DOMAIN m.turns :
          /\ m.turns[t].emitted
          /\ n.outTurns[i].id = <<tr, t>> /\ n.outTurns[i].workstream = Unscoped
          /\ n.outTurns[i].started = m.turns[t].started
          /\ n.outTurns[i].refs \subseteq Ids(n.outEvidence)
          /\ \E l \in 1 .. k + 1 : IsEnd(S, l, t) /\ n.outTurns[i].ended = S[l].native
    <3> TAKE i \in DOMAIN n.outTurns
    <3>1. PICK t \in DOMAIN n.turns :
          /\ n.turns[t].emitted
          /\ n.outTurns[i].id = <<tr, t>> /\ n.outTurns[i].workstream = Unscoped
          /\ n.outTurns[i].started = n.turns[t].started
          /\ n.outTurns[i].refs \subseteq Ids(n.outEvidence)
          /\ \E l \in 1 .. k : IsEnd(S, l, t) /\ n.outTurns[i].ended = S[l].native
      BY <2>1 DEF KnowsEnded
    <3> QED BY <1>3, <1>4, <3>1
  <2> QED BY <1>3, <2>1, <2>2 DEF KnowsEnded
<1>10. KnowsEvidence(tr, S, k + 1, m)
  <2>1. KnowsEvidence(tr, S, k, n)
    BY DEF Knows
  <2>2. \A i \in DOMAIN n.outEvidence : \E t \in DOMAIN m.turns : \E l \in 1 .. k + 1 :
          /\ m.turns[t].emitted
          /\ n.outEvidence[i] = [id |-> <<tr, t, l>>, at |-> S[l].at, content |-> NoTurn,
                                 workstream |-> Unscoped]
    <3> TAKE i \in DOMAIN n.outEvidence
    <3>1. PICK t \in DOMAIN n.turns, l \in 1 .. k :
          /\ n.turns[t].emitted
          /\ n.outEvidence[i] = [id |-> <<tr, t, l>>, at |-> S[l].at, content |-> NoTurn,
                                 workstream |-> Unscoped]
      BY <2>1 DEF KnowsEvidence
    <3> QED BY <1>3, <1>4, <3>1
  <2>3. m.outEvidence = n.outEvidence
    BY <1>3
  <2>4. \A i, j \in DOMAIN m.outEvidence :
            m.outEvidence[i].id = m.outEvidence[j].id => i = j
    BY <2>1, <2>3 DEF KnowsEvidence
  <2> QED BY <2>2, <2>3, <2>4 DEF KnowsEvidence
<1> QED BY <1>3, <1>6, <1>7, <1>8, <1>9, <1>10 DEF Knows


(* task_complete, turn_aborted: of the current turn *)
EndedTurn(tr, r, b) ==
    LET deferred == DeferredEvidence(tr, r.turn, b)
    IN  [id |-> <<tr, r.turn>>, sequence |-> b.sequence, started |-> b.started,
         ended |-> r.native, refs |-> {deferred[i].id : i \in DOMAIN deferred},
         workstream |-> Unscoped]

LEMMA DeferredIs ==
  ASSUME NEW tr \in Traces, NEW t \in Nat, NEW b \in Builder
  PROVE  /\ DeferredEvidence(tr, t, b) \in Seq(Evidence)
         /\ b.usage = NoUsage => DeferredEvidence(tr, t, b) = <<>>
         /\ b.usage # NoUsage =>
               /\ Len(DeferredEvidence(tr, t, b)) = 1
               /\ DeferredEvidence(tr, t, b)[1] =
                     [id |-> <<tr, t, b.usage.line>>, at |-> b.usage.at,
                      content |-> NoTurn, workstream |-> Unscoped]
<1>1. CASE b.usage = NoUsage
  BY <1>1 DEF DeferredEvidence
<1>2. CASE b.usage # NoUsage
  <2> DEFINE e == [id |-> <<tr, t, b.usage.line>>, at |-> b.usage.at,
                   content |-> NoTurn, workstream |-> Unscoped]
  <2>1. DeferredEvidence(tr, t, b) = <<e>>
    BY <1>2 DEF DeferredEvidence
  <2>2. b.usage \in [at : Nat, line : Nat]
    BY <1>2 DEF Builder
  <2>3. e \in Evidence
    BY <2>2 DEF Evidence
  <2> HIDE DEF e
  <2>4. DeferredEvidence(tr, t, b) \in Seq(Evidence)
    BY <2>1, <2>3
  <2>5. Len(DeferredEvidence(tr, t, b)) = 1 /\ DeferredEvidence(tr, t, b)[1] = e
    BY <2>1
  <2> QED BY <1>2, <2>4, <2>5 DEF e
<1> QED BY <1>1, <1>2

LEMMA EndedIs ==
  ASSUME NEW tr \in Traces, NEW r \in Record, r.turn \in Nat, NEW b \in Builder
  PROVE  EndedTurn(tr, r, b) \in Turn
<1> DEFINE d == DeferredEvidence(tr, r.turn, b)
           refs == {d[i].id : i \in DOMAIN d}
<1>1. d \in Seq(Evidence)
  BY DeferredIs
<1>2. \A i \in DOMAIN d : d[i].id \in Traces \X Nat \X Nat
  <2> HIDE DEF d
  <2>1. \A i \in DOMAIN d : d[i] \in Evidence
    BY <1>1
  <2> QED BY <2>1 DEF Evidence
<1>3. refs \subseteq Traces \X Nat \X Nat
  BY <1>2
<1>4. <<tr, r.turn>> \in Traces \X Nat
  OBVIOUS
<1>5. EndedTurn(tr, r, b) = [id |-> <<tr, r.turn>>, sequence |-> b.sequence,
                             started |-> b.started, ended |-> r.native,
                             refs |-> refs, workstream |-> Unscoped]
  BY DEF EndedTurn
<1> HIDE DEF refs
<1> QED BY <1>3, <1>4, <1>5 DEF Turn, Builder, Record

(* m is n after its turn t has ended, published as x with the evidence d. *)
Finished(n, m, t, x, d) ==
    /\ m \in Normalizer /\ m.current = NoTurn /\ m.next = n.next
    /\ m.outTurns = Append(n.outTurns, x) /\ m.outEvidence = n.outEvidence \o d
    /\ DOMAIN m.turns = DOMAIN n.turns
    /\ \A u \in DOMAIN n.turns :
          /\ u # t => m.turns[u] = n.turns[u]
          /\ m.turns[u].sequence = n.turns[u].sequence
          /\ m.turns[u].started = n.turns[u].started
    /\ m.turns[t].usage = NoUsage /\ m.turns[t].emitted

LEMMA FinishIs ==
  ASSUME NEW tr \in Traces, NEW n \in Normalizer, NEW r \in Record, r.turn \in Nat,
         r.turn \in DOMAIN n.turns, n.current = r.turn, ~n.turns[r.turn].emitted
  PROVE  Finished(n, FinishTurn(tr, n, r), r.turn, EndedTurn(tr, r, n.turns[r.turn]),
                  DeferredEvidence(tr, r.turn, n.turns[r.turn]))
<1>0. PICK m : m = FinishTurn(tr, n, r)
  OBVIOUS
<1> DEFINE t == r.turn
           b == n.turns[t]
           turn == EndedTurn(tr, r, b)
           d == DeferredEvidence(tr, t, b)
           c == [b EXCEPT !.usage = NoUsage, !.emitted = TRUE]
<1>1. n.turns \in Builders /\ b \in Builder /\ t # NoTurn
  BY BuildersAre, IngestAssumption DEF Normalizer
<1>2. BuilderFor(n, r) = t
  BY <1>1 DEF BuilderFor
<1>3. /\ c \in Builder /\ c.sequence = b.sequence /\ c.started = b.started
      /\ c.usage = NoUsage /\ c.emitted
  <2> HIDE DEF b
  <2> QED BY <1>1 DEF Builder
<1> HIDE DEF c
<1> DEFINE f == [n.turns EXCEPT ![t] = c]
<1>4. /\ f \in Builders /\ DOMAIN f = DOMAIN n.turns
      /\ \A u \in DOMAIN n.turns : f[u] = IF u = t THEN c ELSE n.turns[u]
  BY <1>1, <1>3, BuilderSet
<1>5. turn \in Turn /\ d \in Seq(Evidence)
  BY <1>1, DeferredIs, EndedIs
<1>6. m = [n EXCEPT !.turns = f, !.current = NoTurn,
                    !.outTurns = Append(n.outTurns, turn),
                    !.outEvidence = n.outEvidence \o d]
  <2>1. turn = [id |-> <<tr, t>>, sequence |-> b.sequence, started |-> b.started,
                ended |-> r.native, refs |-> {d[i].id : i \in DOMAIN d},
                workstream |-> Unscoped]
    BY DEF EndedTurn
  <2>2. m = [n EXCEPT !.turns[t] = [b EXCEPT !.usage = NoUsage, !.emitted = TRUE],
                      !.current = IF @ = t THEN NoTurn ELSE @,
                      !.outTurns = Append(@, turn), !.outEvidence = @ \o d]
    BY <1>0, <1>1, <1>2, <2>1 DEF FinishTurn
  <2> HIDE DEF d, turn, b
  <2> QED BY <1>1, <2>2 DEF Normalizer, c
<1> HIDE DEF f, turn, d
<1>7. /\ m.turns = f /\ m.current = NoTurn /\ m.next = n.next
      /\ m.outTurns = Append(n.outTurns, turn) /\ m.outEvidence = n.outEvidence \o d
  BY <1>6 DEF Normalizer
<1>8. m \in Normalizer
  <2>1. /\ Append(n.outTurns, turn) \in Seq(Turn)
        /\ n.outEvidence \o d \in Seq(Evidence)
    BY <1>5 DEF Normalizer
  <2> QED BY <1>4, <1>6, <2>1 DEF Normalizer
<1>9. /\ DOMAIN m.turns = DOMAIN n.turns
      /\ \A u \in DOMAIN n.turns :
            /\ u # t => m.turns[u] = n.turns[u]
            /\ m.turns[u].sequence = n.turns[u].sequence
            /\ m.turns[u].started = n.turns[u].started
      /\ m.turns[t].usage = NoUsage /\ m.turns[t].emitted
  BY <1>1, <1>3, <1>4, <1>7
<1> HIDE DEF t
<1>10. Finished(n, m, t, turn, d)
  BY <1>7, <1>8, <1>9, Zenon DEF Finished
<1> QED BY <1>0, <1>10, Zenon DEF turn, d, t


(* A turn that ends is the current one. *)
LEMMA EndsCurrent ==
  ASSUME NEW tr \in Traces, NEW S, Ordered(S), NEW k \in Nat, k + 1 \in DOMAIN S,
         NEW n, Knows(tr, S, k, n), S[k + 1].kind = "ended"
  PROVE  /\ S[k + 1].turn \in Nat /\ S[k + 1].turn \in DOMAIN n.turns
         /\ n.current = S[k + 1].turn /\ ~n.turns[S[k + 1].turn].emitted
<1>1. S[k + 1].turn \in Nat
  <2>1. S[k + 1] \in Record
    BY Facts
  <2>2. S[k + 1].turn # NoTurn
    BY DEF Ordered
  <2> QED BY <2>1, <2>2 DEF Record
<1>2. PICK i \in 1 .. k : Open(S, i, k + 1) /\ S[i].turn = S[k + 1].turn
  BY DEF Ordered
<1>3. n.current = S[k + 1].turn
  BY <1>2 DEF Knows, KnowsCurrent
<1>4. n.current # NoTurn
  BY <1>1, <1>3, IngestAssumption
<1>5. n.current \in DOMAIN n.turns /\ ~n.turns[n.current].emitted
  BY <1>4, Facts
<1> QED BY <1>1, <1>3, <1>5

LEMMA EndKnown ==
  ASSUME NEW tr \in Traces, NEW S, Ordered(S), NEW k \in Nat, k + 1 \in DOMAIN S,
         NEW n, Knows(tr, S, k, n), S[k + 1].kind = "ended",
         NEW m, m = FinishTurn(tr, n, S[k + 1])
  PROVE  Knows(tr, S, k + 1, m)
<1> DEFINE r == S[k + 1]
           t == r.turn
           turn == EndedTurn(tr, r, n.turns[t])
           d == DeferredEvidence(tr, t, n.turns[t])
<1>1. /\ n \in Normalizer /\ r \in Record /\ DOMAIN n.turns \subseteq Nat
      /\ \A i \in 1 .. k : i \in DOMAIN S /\ S[i] \in Record
      /\ \A u \in DOMAIN n.turns : n.turns[u] \in Builder
  BY Facts
<1>2. t \in Nat /\ t \in DOMAIN n.turns /\ n.current = t /\ ~n.turns[t].emitted
  BY EndsCurrent
<1>3. /\ m \in Normalizer /\ m.current = NoTurn /\ m.next = n.next
      /\ m.outTurns = Append(n.outTurns, turn)
      /\ m.outEvidence = n.outEvidence \o d
      /\ DOMAIN m.turns = DOMAIN n.turns
      /\ \A u \in DOMAIN n.turns : /\ u # t => m.turns[u] = n.turns[u]
                                   /\ m.turns[u].started = n.turns[u].started
      /\ m.turns[t].usage = NoUsage /\ m.turns[t].emitted
  <2> HIDE DEF r
  <2>1. /\ n \in Normalizer /\ r \in Record /\ r.turn \in Nat /\ r.turn \in DOMAIN n.turns
        /\ n.current = r.turn /\ ~n.turns[r.turn].emitted /\ m = FinishTurn(tr, n, r)
    BY <1>1, <1>2 DEF r
  <2>2. Finished(n, FinishTurn(tr, n, r), r.turn, EndedTurn(tr, r, n.turns[r.turn]),
                 DeferredEvidence(tr, r.turn, n.turns[r.turn]))
    BY <2>1, FinishIs
  <2> QED BY <2>1, <2>2, Zenon DEF Finished
<1>4. 1 .. k + 1 = 1 .. k \union {k + 1}
  OBVIOUS
<1>5. /\ turn.id = <<tr, t>> /\ turn.workstream = Unscoped /\ turn.ended = r.native
      /\ turn.started = n.turns[t].started /\ turn.refs = {d[i].id : i \in DOMAIN d}
      /\ turn \in Turn
  <2>1. turn \in Turn
    BY <1>1, <1>2, EndedIs
  <2> QED BY <2>1 DEF EndedTurn
<1>6. /\ d \in Seq(Evidence) /\ (d = <<>> \/ Len(d) = 1)
      /\ d # <<>> => \E l \in 1 .. k : d[1] = [id |-> <<tr, t, l>>, at |-> S[l].at,
                                         content |-> NoTurn, workstream |-> Unscoped]
  <2>1. n.turns[t] \in Builder
    BY <1>1, <1>2
  <2>2. \/ n.turns[t].usage = NoUsage
        \/ \E l \in 1 .. k : n.turns[t].usage = [at |-> S[l].at, line |-> l]
    BY <1>2 DEF Knows, KnowsUsage
  <2>3. CASE n.turns[t].usage = NoUsage
    BY <1>2, <2>1, <2>3, DeferredIs
  <2>4. CASE n.turns[t].usage # NoUsage
    <3>1. PICK l \in 1 .. k : n.turns[t].usage = [at |-> S[l].at, line |-> l]
      BY <2>2, <2>4
    <3>2. /\ d \in Seq(Evidence) /\ Len(d) = 1
          /\ d[1] = [id |-> <<tr, t, n.turns[t].usage.line>>, at |-> n.turns[t].usage.at,
                     content |-> NoTurn, workstream |-> Unscoped]
      BY <1>2, <2>1, <2>4, DeferredIs
    <3>3. d[1] = [id |-> <<tr, t, l>>, at |-> S[l].at,
                  content |-> NoTurn, workstream |-> Unscoped]
      BY <3>1, <3>2
    <3> HIDE DEF d
    <3> QED BY <3>2, <3>3
  <2> QED BY <2>3, <2>4
<1> HIDE DEF turn, d
<1>7. /\ n.outTurns \in Seq(Turn) /\ n.outEvidence \in Seq(Evidence)
      /\ KnowsEnded(tr, S, k, n) /\ KnowsEvidence(tr, S, k, n) /\ KnowsTurns(S, k, n)
      /\ KnowsUsage(S, k, n)
  BY <1>1 DEF Knows, Normalizer
<1>8. \A u \in DOMAIN n.turns : m.turns[u].emitted <=> (u = t \/ n.turns[u].emitted)
  BY <1>3
<1>9. KnowsTurns(S, k + 1, m)
  <2>1. \A i \in 1 .. k + 1 : S[i].kind = "started" => S[i].turn \in DOMAIN m.turns
    BY <1>3, <1>4, <1>7 DEF KnowsTurns
  <2>2. ASSUME NEW u \in DOMAIN n.turns
        PROVE  /\ \E i \in 1 .. k + 1 : IsStart(S, i, u) /\ m.turns[u].started = S[i].native
               /\ m.turns[u].emitted <=> \E i \in 1 .. k + 1 : IsEnd(S, i, u)
    <3>1. IsEnd(S, k + 1, u) <=> u = t
      BY DEF IsEnd
    <3> QED BY <1>3, <1>4, <1>7, <1>8, <3>1 DEF KnowsTurns
  <2> QED BY <1>3, <2>1, <2>2 DEF KnowsTurns
<1>10. KnowsCurrent(S, k + 1, m)
  <2>1. \A i \in 1 .. k + 1 : ~Open(S, i, k + 2)
    BY DEF Open
  <2>2. k + 1 + 1 = k + 2
    OBVIOUS
  <2> QED BY <1>3, <2>1, <2>2 DEF KnowsCurrent
<1>11. KnowsUsage(S, k + 1, m)
  <2> SUFFICES ASSUME NEW u \in DOMAIN n.turns
               PROVE  \/ m.turns[u].usage = NoUsage
                      \/ \E l \in 1 .. k + 1 : m.turns[u].usage = [at |-> S[l].at, line |-> l]
    BY <1>3 DEF KnowsUsage
  <2>1. CASE u = t
    BY <1>3, <2>1
  <2>2. CASE u # t
    <3>1. m.turns[u] = n.turns[u]
      BY <1>3, <2>2
    <3> QED BY <1>4, <1>7, <3>1 DEF KnowsUsage
  <2> QED BY <2>1, <2>2
<1>12. KnowsEnded(tr, S, k + 1, m)
  <2>1. /\ DOMAIN m.outTurns = DOMAIN n.outTurns \union {Len(n.outTurns) + 1}
        /\ \A i \in DOMAIN n.outTurns : m.outTurns[i] = n.outTurns[i]
        /\ m.outTurns[Len(n.outTurns) + 1] = turn
        /\ Len(n.outTurns) + 1 \notin DOMAIN n.outTurns
    BY <1>3, <1>5, <1>7
  <2>2. Ids(m.outTurns) = Ids(n.outTurns) \union {<<tr, t>>}
    <3>1. Ids(Append(n.outTurns, turn)) = Ids(n.outTurns) \union {turn.id}
      <4>1. n.outTurns \in Seq(Turn) /\ turn \in Turn
        BY <1>5, <1>7
      <4> QED BY <4>1, IdsAppend
    <3> QED BY <1>3, <1>5, <3>1
  <2>3. Ids(m.outEvidence) = Ids(n.outEvidence) \union turn.refs
    <3>1. Ids(n.outEvidence \o d) = Ids(n.outEvidence) \union Ids(d)
      <4>1. n.outEvidence \in Seq(Evidence) /\ d \in Seq(Evidence)
        BY <1>6, <1>7
      <4> QED BY <4>1, IdsConcat
    <3>2. turn.refs = Ids(d)
      BY <1>5 DEF Ids
    <3> QED BY <1>3, <3>1, <3>2
  <2>4. ASSUME NEW u \in DOMAIN m.turns, m.turns[u].emitted
        PROVE  <<tr, u>> \in Ids(m.outTurns)
    BY <1>3, <1>7, <1>8, <2>2, <2>4 DEF KnowsEnded
  <2>5. ASSUME NEW i \in DOMAIN m.outTurns
        PROVE  \E u \in DOMAIN m.turns :
          /\ m.turns[u].emitted
          /\ m.outTurns[i].id = <<tr, u>> /\ m.outTurns[i].workstream = Unscoped
          /\ m.outTurns[i].started = m.turns[u].started
          /\ m.outTurns[i].refs \subseteq Ids(m.outEvidence)
          /\ \E l \in 1 .. k + 1 : IsEnd(S, l, u) /\ m.outTurns[i].ended = S[l].native
    <3>1. CASE i \in DOMAIN n.outTurns
      <4>1. PICK u \in DOMAIN n.turns :
          /\ n.turns[u].emitted
          /\ n.outTurns[i].id = <<tr, u>> /\ n.outTurns[i].workstream = Unscoped
          /\ n.outTurns[i].started = n.turns[u].started
          /\ n.outTurns[i].refs \subseteq Ids(n.outEvidence)
          /\ \E l \in 1 .. k : IsEnd(S, l, u) /\ n.outTurns[i].ended = S[l].native
        BY <1>7, <3>1 DEF KnowsEnded
      <4>2. m.outTurns[i] = n.outTurns[i]
        BY <2>1, <3>1
      <4> QED BY <1>3, <1>4, <1>8, <2>3, <4>1, <4>2
    <3>2. CASE i = Len(n.outTurns) + 1
      <4>1. m.outTurns[i] = turn
        BY <2>1, <3>2
      <4>2. IsEnd(S, k + 1, t) /\ turn.ended = S[k + 1].native /\ k + 1 \in 1 .. k + 1
        BY <1>5 DEF IsEnd
      <4>3. turn.started = m.turns[t].started
        BY <1>2, <1>3, <1>5
      <4>4. t \in DOMAIN m.turns /\ m.turns[t].emitted
        BY <1>2, <1>3
      <4>5. turn.refs \subseteq Ids(m.outEvidence)
        BY <2>3
      <4> QED BY <1>5, <4>1, <4>2, <4>3, <4>4, <4>5
    <3> QED BY <2>1, <3>1, <3>2
  <2>6. ASSUME NEW i \in DOMAIN n.outTurns PROVE n.outTurns[i].id # <<tr, t>>
    BY <1>2, <1>7 DEF KnowsEnded
  <2>7. ASSUME NEW i \in DOMAIN m.outTurns, NEW j \in DOMAIN m.outTurns,
               m.outTurns[i].id = m.outTurns[j].id
        PROVE  i = j
    BY <1>5, <1>7, <2>1, <2>6, <2>7 DEF KnowsEnded
  <2> QED BY <2>4, <2>5, <2>7 DEF KnowsEnded
<1>13. KnowsEvidence(tr, S, k + 1, m)
  <2> DEFINE L == Len(n.outEvidence)
  <2>1. /\ \A i \in DOMAIN n.outEvidence : m.outEvidence[i] = n.outEvidence[i]
        /\ DOMAIN n.outEvidence = 1 .. L /\ L \in Nat
    BY <1>3, <1>6, <1>7
  <2>2. CASE d = <<>>
    <3>1. m.outEvidence = n.outEvidence
      BY <1>3, <1>7, <2>2
    <3>2. ASSUME NEW i \in DOMAIN n.outEvidence
          PROVE  \E u \in DOMAIN m.turns : \E h \in 1 .. k + 1 :
                      /\ m.turns[u].emitted
                      /\ n.outEvidence[i] = [id |-> <<tr, u, h>>, at |-> S[h].at,
                            content |-> NoTurn, workstream |-> Unscoped]
      <4>1. PICK u \in DOMAIN n.turns, h \in 1 .. k :
              /\ n.turns[u].emitted
              /\ n.outEvidence[i] = [id |-> <<tr, u, h>>, at |-> S[h].at,
                            content |-> NoTurn, workstream |-> Unscoped]
        BY <1>7 DEF KnowsEvidence
      <4> QED BY <1>3, <1>4, <1>8, <4>1
    <3>3. \A i, j \in DOMAIN m.outEvidence :
              m.outEvidence[i].id = m.outEvidence[j].id => i = j
      BY <1>7, <3>1 DEF KnowsEvidence
    <3> QED BY <3>1, <3>2, <3>3 DEF KnowsEvidence
  <2>3. CASE d # <<>>
    <3>1. PICK l \in 1 .. k : d[1] = [id |-> <<tr, t, l>>, at |-> S[l].at,
                                      content |-> NoTurn, workstream |-> Unscoped]
      BY <1>6, <2>3
    <3>2. DOMAIN m.outEvidence = 1 .. L \union {L + 1} /\ m.outEvidence[L + 1] = d[1]
      <4>1. Len(d) = 1 /\ d \in Seq(Evidence) /\ n.outEvidence \in Seq(Evidence)
        <5>1. d = <<>> \/ Len(d) = 1
          BY <1>6
        <5>2. d \in Seq(Evidence) /\ n.outEvidence \in Seq(Evidence)
          BY <1>6, <1>7
        <5> QED BY <5>1, <5>2, <2>3
      <4>2. /\ Len(n.outEvidence \o d) = L + 1 /\ n.outEvidence \o d \in Seq(Evidence)
            /\ (n.outEvidence \o d)[L + 1] = d[1]
        <5>1. 1 \in 1 .. Len(d)
          BY <4>1
        <5> QED BY <4>1, <5>1, ConcatIs
      <4> QED BY <1>3, <2>1, <4>2
    <3>3. ASSUME NEW i \in 1 .. L
          PROVE  /\ n.outEvidence[i].id # d[1].id
                 /\ \E u \in DOMAIN m.turns : \E h \in 1 .. k + 1 :
                      /\ m.turns[u].emitted
                      /\ m.outEvidence[i] = [id |-> <<tr, u, h>>, at |-> S[h].at,
                            content |-> NoTurn, workstream |-> Unscoped]
      <4>1. PICK u \in DOMAIN n.turns, h \in 1 .. k :
              /\ n.turns[u].emitted
              /\ n.outEvidence[i] = [id |-> <<tr, u, h>>, at |-> S[h].at,
                            content |-> NoTurn, workstream |-> Unscoped]
        BY <1>7, <2>1 DEF KnowsEvidence
      <4>2. u # t /\ n.outEvidence[i].id = <<tr, u, h>> /\ d[1].id = <<tr, t, l>>
        BY <1>2, <3>1, <4>1
      <4>3. n.outEvidence[i].id # d[1].id
        BY <4>2
      <4>4. u \in DOMAIN m.turns /\ m.turns[u].emitted /\ h \in 1 .. k + 1
        BY <1>3, <1>4, <1>8, <4>1
      <4>5. m.outEvidence[i] = n.outEvidence[i]
        BY <2>1
      <4> QED BY <4>1, <4>3, <4>4, <4>5
    <3>4. ASSUME NEW i \in DOMAIN m.outEvidence
          PROVE  \E u \in DOMAIN m.turns : \E h \in 1 .. k + 1 :
                      /\ m.turns[u].emitted
                      /\ m.outEvidence[i] = [id |-> <<tr, u, h>>, at |-> S[h].at,
                            content |-> NoTurn, workstream |-> Unscoped]
      <4>1. CASE i \in 1 .. L
        BY <3>3, <4>1
      <4>2. CASE i = L + 1
        <5>1. t \in DOMAIN m.turns /\ m.turns[t].emitted /\ l \in 1 .. k + 1
          BY <1>2, <1>3, <1>4
        <5>2. m.outEvidence[i] = [id |-> <<tr, t, l>>, at |-> S[l].at,
                                  content |-> NoTurn, workstream |-> Unscoped]
          BY <3>1, <3>2, <4>2
        <5> QED BY <5>1, <5>2
      <4> QED BY <3>2, <4>1, <4>2
    <3>5. ASSUME NEW i \in DOMAIN m.outEvidence, NEW j \in DOMAIN m.outEvidence,
                 m.outEvidence[i].id = m.outEvidence[j].id
          PROVE  i = j
      BY <1>7, <2>1, <3>2, <3>3, <3>5 DEF KnowsEvidence
    <3> QED BY <3>4, <3>5 DEF KnowsEvidence
  <2> QED BY <2>2, <2>3
<1> QED BY <1>3, <1>9, <1>10, <1>11, <1>12, <1>13 DEF Knows


LEMMA AcceptKnown ==
  ASSUME NEW tr \in Traces, NEW S, Ordered(S), NEW k \in Nat, k + 1 \in DOMAIN S,
         NEW n, Knows(tr, S, k, n)
  PROVE  Knows(tr, S, k + 1, Accept(tr, n, S[k + 1], k + 1))
<1> DEFINE r == S[k + 1]
<1>1. r \in Record
  BY Facts
<1>2. r.kind \in {"started", "usage", "ended"}
  BY <1>1 DEF Record
<1>3. CASE r.kind = "started"
  <2>1. Accept(tr, n, r, k + 1) = StartTurn(n, r)
    BY <1>3 DEF Accept
  <2> QED BY <1>3, <2>1, StartKnown
<1>4. CASE r.kind = "usage"
  <2>1. Accept(tr, n, r, k + 1) = AcceptUsage(n, r, k + 1)
    BY <1>4 DEF Accept
  <2> QED BY <1>4, <2>1, UsageKnown
<1>5. CASE r.kind = "ended"
  <2>1. Accept(tr, n, r, k + 1) = FinishTurn(tr, n, r)
    BY <1>5 DEF Accept
  <2> QED BY <1>5, <2>1, EndKnown
<1> QED BY <1>2, <1>3, <1>4, <1>5

LEMMA NewKnown ==
  ASSUME NEW tr, NEW S
  PROVE  Knows(tr, S, 0, NewNormalizer)
<1> DEFINE n == NewNormalizer
<1>1. /\ n.turns = <<>> /\ n.current = NoTurn /\ n.next = 1
      /\ n.outTurns = <<>> /\ n.outEvidence = <<>>
  BY DEF NewNormalizer
<1>2. DOMAIN n.turns = {} /\ n.turns \in Builders
  <2> DEFINE e == <<>>
  <2>1. DOMAIN e = {} /\ e = [t \in {} |-> e[t]]
    OBVIOUS
  <2>2. e \in [{} -> Builder]
    BY <2>1
  <2> HIDE DEF e
  <2>3. e \in Builders
    BY <2>2, BuildersAre
  <2>4. n.turns = e
    BY <1>1 DEF e
  <2> QED BY <2>1, <2>3, <2>4
<1>3. n \in Normalizer
  <2>1. PICK f : f = n.turns
    OBVIOUS
  <2>2. n = [turns |-> f, current |-> NoTurn, next |-> 1,
             outTurns |-> <<>>, outEvidence |-> <<>>]
    BY <1>1, <2>1 DEF NewNormalizer
  <2>3. <<>> \in Seq(Turn) /\ <<>> \in Seq(Evidence)
    OBVIOUS
  <2>4. f \in Builders
    BY <1>2, <2>1
  <2> HIDE DEF n
  <2> QED BY <2>2, <2>3, <2>4 DEF Normalizer
<1>4. DOMAIN n.outTurns = {} /\ DOMAIN n.outEvidence = {} /\ 1 .. 0 = {}
  BY <1>1
<1> HIDE DEF n
<1>5. KnowsTurns(S, 0, n) /\ KnowsCurrent(S, 0, n) /\ KnowsUsage(S, 0, n)
  BY <1>1, <1>2, <1>4 DEF KnowsTurns, KnowsCurrent, KnowsUsage
<1>6. KnowsEnded(tr, S, 0, n) /\ KnowsEvidence(tr, S, 0, n)
  BY <1>1, <1>2, <1>4 DEF KnowsEnded, KnowsEvidence
<1> QED BY <1>3, <1>5, <1>6 DEF Knows, n

(* A replay of the first k lines. *)
Read(tr, S, k) == ReadForward(tr, S, NewNormalizer, 1, k)

LEMMA ReplayKnown ==
  ASSUME NEW tr \in Traces, NEW S, Ordered(S), NEW k \in 0 .. Len(S)
  PROVE  Knows(tr, S, k, Read(tr, S, k))
<1> DEFINE T == {i \in 0 .. Len(S) : ~Knows(tr, S, i, Read(tr, S, i))}
<1> SUFFICES ASSUME T # {} PROVE FALSE
  OBVIOUS
<1>1. T \subseteq Nat /\ DOMAIN S = 1 .. Len(S) /\ Len(S) \in Nat
  BY DEF Ordered
<1>2. PICK x \in T : \A y \in T : x <= y
  <2> HIDE DEF T
  <2> QED BY <1>1, LeastNumber
<1>3. x \in 0 .. Len(S) /\ ~Knows(tr, S, x, Read(tr, S, x))
  BY <1>2
<1>4. CASE x = 0
  <2>1. Read(tr, S, x) = NewNormalizer
    <3>1. 1 \in Nat \ {0} /\ 0 \in Nat /\ 0 < 1
      OBVIOUS
    <3>2. ReadForward(tr, S, NewNormalizer, 1, 0) = NewNormalizer
      BY <3>1, ReadNothing
    <3> QED BY <1>4, <3>2 DEF Read
  <2> QED BY <1>3, <1>4, <2>1, NewKnown
<1>5. CASE x # 0
  <2>1. x - 1 \in Nat /\ x - 1 \in 0 .. Len(S) /\ x - 1 \notin T /\ x \in DOMAIN S
        /\ x = (x - 1) + 1
    BY <1>1, <1>2, <1>3, <1>5
  <2>2. Knows(tr, S, x - 1, Read(tr, S, x - 1))
    BY <2>1
  <2>3. Read(tr, S, x) = Accept(tr, Read(tr, S, x - 1), S[x], x)
    BY <1>1, <1>3, <1>5, ReadOne DEF Read
  <2>4. \A h \in Nat : h + 1 \in DOMAIN S /\ Knows(tr, S, h, Read(tr, S, h)) =>
            Knows(tr, S, h + 1, Accept(tr, Read(tr, S, h), S[h + 1], h + 1))
    BY AcceptKnown
  <2>5. (x - 1) + 1 \in DOMAIN S
    BY <2>1
  <2>6. Knows(tr, S, (x - 1) + 1, Accept(tr, Read(tr, S, x - 1), S[(x - 1) + 1], (x - 1) + 1))
    BY <2>1, <2>2, <2>4, <2>5
  <2> QED BY <1>3, <2>1, <2>3, <2>6
<1> QED BY <1>4, <1>5

(* What is read of a rollout does not change when lines are added to it. *)
LEMMA ReadAgrees ==
  ASSUME NEW tr, NEW S, NEW Q, NEW n, NEW first \in Nat \ {0}, NEW last \in Nat,
         \A i \in first .. last : S[i] = Q[i]
  PROVE  ReadForward(tr, S, n, first, last) = ReadForward(tr, Q, n, first, last)
<1> DEFINE T == {i \in 0 .. last : ReadForward(tr, S, n, first, i)
                                    # ReadForward(tr, Q, n, first, i)}
<1> SUFFICES ASSUME T # {} PROVE FALSE
  OBVIOUS
<1>1. T \subseteq Nat
  OBVIOUS
<1>2. PICK x \in T : \A y \in T : x <= y
  <2> HIDE DEF T
  <2> QED BY <1>1, LeastNumber
<1>3. x \in 0 .. last
  BY <1>2
<1>4. CASE x < first
  <2>1. x \in Nat
    BY <1>3
  <2>2. ReadForward(tr, S, n, first, x) = n /\ ReadForward(tr, Q, n, first, x) = n
    BY <1>4, <2>1, ReadNothing
  <2> QED BY <1>2, <2>2
<1>5. CASE ~(x < first)
  <2>1. x - 1 \in 0 .. last /\ x - 1 \notin T /\ S[x] = Q[x] /\ x \in Nat
    BY <1>2, <1>3, <1>5
  <2>2. ReadForward(tr, S, n, first, x - 1) = ReadForward(tr, Q, n, first, x - 1)
    BY <2>1
  <2>3. /\ ReadForward(tr, S, n, first, x)
             = Accept(tr, ReadForward(tr, S, n, first, x - 1), S[x], x)
        /\ ReadForward(tr, Q, n, first, x)
             = Accept(tr, ReadForward(tr, Q, n, first, x - 1), Q[x], x)
    BY <1>5, <2>1, ReadOne
  <2> QED BY <1>2, <2>1, <2>2, <2>3
<1> QED BY <1>4, <1>5


-----------------------------------------------------------------------------
(* A run that resumes.  What it reads from a checkpoint is what a run from the
   beginning reads beyond it: the ended turns the checkpoint forgot make no
   difference. *)

Resumes(B, M, F) ==
    /\ M \in Normalizer
    /\ M.current = F.current /\ M.next = F.next
    /\ DOMAIN M.turns = {t \in DOMAIN F.turns : ~(t \in DOMAIN B.turns /\ B.turns[t].emitted)}
    /\ \A t \in DOMAIN M.turns : M.turns[t] = F.turns[t]
    /\ \A t \in DOMAIN B.turns : /\ t \in DOMAIN F.turns
                                 /\ B.turns[t].emitted => F.turns[t].emitted
    /\ F.outTurns = B.outTurns \o M.outTurns
    /\ F.outEvidence = B.outEvidence \o M.outEvidence

LEMMA SnapshotIs ==
  ASSUME NEW n \in Normalizer
  PROVE  /\ Snapshot(n) \in Normalizer
         /\ Snapshot(n).current = n.current /\ Snapshot(n).next = n.next
         /\ DOMAIN Snapshot(n).turns = {u \in DOMAIN n.turns : ~n.turns[u].emitted}
         /\ \A t \in DOMAIN Snapshot(n).turns : Snapshot(n).turns[t] = n.turns[t]
         /\ Snapshot(n).outTurns = <<>> /\ Snapshot(n).outEvidence = <<>>
         /\ \A D, f : D = DOMAIN Snapshot(n).turns /\ f = [t \in D |-> n.turns[t]] =>
               Snapshot(n) = [turns |-> f, current |-> n.current, next |-> n.next,
                              outTurns |-> <<>>, outEvidence |-> <<>>]
<1>1. n.turns \in Builders
  BY DEF Normalizer
<1>2. /\ DOMAIN n.turns \subseteq Nat
      /\ \A t \in DOMAIN n.turns : n.turns[t] \in Builder
  BY <1>1, BuildersAre
<1> DEFINE D == {u \in DOMAIN n.turns : ~n.turns[u].emitted}
           f == [t \in D |-> n.turns[t]]
<1>3. DOMAIN f = D /\ \A t \in D : f[t] = n.turns[t]
  OBVIOUS
<1>4. f \in Builders
  <2>1. D \subseteq Nat /\ (\A t \in D : f[t] \in Builder) /\ f = [t \in D |-> f[t]]
    BY <1>2
  <2>2. f \in [D -> Builder]
    BY <2>1
  <2> HIDE DEF f, D
  <2> QED BY <2>1, <2>2, BuildersAre
<1>5. Snapshot(n) = [n EXCEPT !.turns = f, !.outTurns = <<>>, !.outEvidence = <<>>]
  BY DEF Snapshot
<1> HIDE DEF f
<1>6. <<>> \in Seq(Turn) /\ <<>> \in Seq(Evidence)
  OBVIOUS
<1>7. Snapshot(n) = [turns |-> f, current |-> n.current, next |-> n.next,
                     outTurns |-> <<>>, outEvidence |-> <<>>]
  BY <1>5 DEF Normalizer
<1>8. Snapshot(n) \in Normalizer
  BY <1>4, <1>6, <1>7 DEF Normalizer
<1>9. /\ Snapshot(n).turns = f /\ Snapshot(n).current = n.current /\ Snapshot(n).next = n.next
      /\ Snapshot(n).outTurns = <<>> /\ Snapshot(n).outEvidence = <<>>
  BY <1>7
<1> HIDE DEF D
<1>10. \A E, g : E = DOMAIN Snapshot(n).turns /\ g = [t \in E |-> n.turns[t]] => g = f
  BY <1>3, <1>9 DEF f
<1>11. \A E, g : E = DOMAIN Snapshot(n).turns /\ g = [t \in E |-> n.turns[t]] =>
               Snapshot(n) = [turns |-> g, current |-> n.current, next |-> n.next,
                              outTurns |-> <<>>, outEvidence |-> <<>>]
  BY <1>7, <1>10
<1> QED BY <1>3, <1>8, <1>9, <1>11 DEF D

LEMMA ConcatNothing ==
  ASSUME NEW X, NEW a \in Seq(X)
  PROVE  a \o <<>> = a /\ <<>> \o a = a
OBVIOUS

LEMMA ConcatAppend ==
  ASSUME NEW a \in Seq(Turn), NEW b \in Seq(Turn), NEW x \in Turn
  PROVE  Append(a \o b, x) = a \o Append(b, x)
OBVIOUS

LEMMA ConcatConcat ==
  ASSUME NEW X, NEW a \in Seq(X), NEW b \in Seq(X), NEW c \in Seq(X)
  PROVE  (a \o b) \o c = a \o (b \o c)
OBVIOUS

LEMMA SameBuilder ==
  ASSUME NEW a \in Builder, NEW b \in Builder, a.sequence = b.sequence,
         a.started = b.started, a.emitted = b.emitted, a.usage = b.usage
  PROVE  a = b
BY DEF Builder

LEMMA ResumesAtCheckpoint ==
  ASSUME NEW F \in Normalizer
  PROVE  Resumes(F, Snapshot(F), F)
<1>1. F.outTurns \in Seq(Turn) /\ F.outEvidence \in Seq(Evidence)
  BY DEF Normalizer
<1>2. F.outTurns \o <<>> = F.outTurns /\ F.outEvidence \o <<>> = F.outEvidence
  BY <1>1, ConcatNothing
<1> QED BY <1>2, SnapshotIs DEF Resumes

LEMMA ResumedStart ==
  ASSUME NEW tr \in Traces, NEW S, Ordered(S), NEW k \in Nat, k + 1 \in DOMAIN S,
         NEW F, Knows(tr, S, k, F), NEW B, NEW M, Resumes(B, M, F),
         S[k + 1].kind = "started"
  PROVE  Resumes(B, StartTurn(M, S[k + 1]), StartTurn(F, S[k + 1]))
<1> DEFINE r == S[k + 1]
           t == r.turn
<1>1. F \in Normalizer /\ r \in Record /\ M \in Normalizer
  BY Facts DEF Resumes
<1>2. t \in Nat /\ t \notin DOMAIN F.turns
  BY StartKnown
<1>3. t \notin DOMAIN M.turns /\ t \notin DOMAIN B.turns
  BY <1>2 DEF Resumes
<1>4. PICK G : G = StartTurn(F, r)
  OBVIOUS
<1>5. PICK N : N = StartTurn(M, r)
  OBVIOUS
<1>6. /\ G.current = t /\ G.next = F.next + 1
      /\ G.outTurns = F.outTurns /\ G.outEvidence = F.outEvidence
      /\ DOMAIN G.turns = DOMAIN F.turns \union {t}
      /\ \A u \in DOMAIN F.turns : G.turns[u] = F.turns[u]
      /\ G.turns[t] = [sequence |-> F.next, started |-> r.native,
                       usage |-> NoUsage, emitted |-> FALSE]
  BY <1>1, <1>2, <1>4, StartIs
<1>7. /\ N \in Normalizer /\ N.current = t /\ N.next = M.next + 1
      /\ N.outTurns = M.outTurns /\ N.outEvidence = M.outEvidence
      /\ DOMAIN N.turns = DOMAIN M.turns \union {t}
      /\ \A u \in DOMAIN M.turns : N.turns[u] = M.turns[u]
      /\ N.turns[t] = [sequence |-> M.next, started |-> r.native,
                       usage |-> NoUsage, emitted |-> FALSE]
  BY <1>1, <1>2, <1>3, <1>5, StartIs
<1> HIDE DEF t
<1>8. DOMAIN N.turns = {u \in DOMAIN G.turns : ~(u \in DOMAIN B.turns /\ B.turns[u].emitted)}
  BY <1>3, <1>6, <1>7 DEF Resumes
<1>9. \A u \in DOMAIN N.turns : N.turns[u] = G.turns[u]
  BY <1>6, <1>7 DEF Resumes
<1>10. \A u \in DOMAIN B.turns : u \in DOMAIN G.turns
                                 /\ (B.turns[u].emitted => G.turns[u].emitted)
  BY <1>6 DEF Resumes
<1>11. Resumes(B, N, G)
  BY <1>6, <1>7, <1>8, <1>9, <1>10 DEF Resumes
<1> QED BY <1>4, <1>5, <1>11

LEMMA ResumedUsage ==
  ASSUME NEW tr \in Traces, NEW S, Ordered(S), NEW k \in Nat, k + 1 \in DOMAIN S,
         NEW F, Knows(tr, S, k, F), NEW B, NEW M, Resumes(B, M, F),
         S[k + 1].kind = "usage"
  PROVE  Resumes(B, AcceptUsage(M, S[k + 1], k + 1), AcceptUsage(F, S[k + 1], k + 1))
<1> DEFINE r == S[k + 1]
<1>1. /\ F \in Normalizer /\ r \in Record /\ M \in Normalizer
      /\ NoTurn \notin DOMAIN F.turns /\ F.current \in DOMAIN F.turns \union {NoTurn}
      /\ F.current # NoTurn => ~F.turns[F.current].emitted
      /\ \A u \in DOMAIN F.turns : F.turns[u] \in Builder
  BY Facts DEF Resumes
<1>2. r.turn = NoTurn /\ k + 1 \in Nat
  BY DEF Ordered
<1>3. M.current \in DOMAIN M.turns \union {NoTurn} /\ NoTurn \notin DOMAIN M.turns
  BY <1>1 DEF Resumes
<1>4. PICK G : G = AcceptUsage(F, r, k + 1)
  OBVIOUS
<1>5. PICK N : N = AcceptUsage(M, r, k + 1)
  OBVIOUS
<1>6. /\ G \in Normalizer /\ G.current = F.current /\ G.next = F.next
      /\ G.outTurns = F.outTurns /\ G.outEvidence = F.outEvidence
      /\ DOMAIN G.turns = DOMAIN F.turns
      /\ \A u \in DOMAIN F.turns :
            /\ u # F.current => G.turns[u] = F.turns[u]
            /\ u = F.current => G.turns[u].usage = [at |-> r.at, line |-> k + 1]
            /\ G.turns[u].sequence = F.turns[u].sequence
            /\ G.turns[u].started = F.turns[u].started
            /\ G.turns[u].emitted = F.turns[u].emitted
  BY <1>1, <1>2, <1>4, UsageIs
<1>7. /\ N \in Normalizer /\ N.current = M.current /\ N.next = M.next
      /\ N.outTurns = M.outTurns /\ N.outEvidence = M.outEvidence
      /\ DOMAIN N.turns = DOMAIN M.turns
      /\ \A u \in DOMAIN M.turns :
            /\ u # M.current => N.turns[u] = M.turns[u]
            /\ u = M.current => N.turns[u].usage = [at |-> r.at, line |-> k + 1]
            /\ N.turns[u].sequence = M.turns[u].sequence
            /\ N.turns[u].started = M.turns[u].started
            /\ N.turns[u].emitted = M.turns[u].emitted
  BY <1>1, <1>2, <1>3, <1>5, UsageIs
<1>8. ASSUME NEW u \in DOMAIN N.turns PROVE N.turns[u] = G.turns[u]
  <2>1. /\ u \in DOMAIN M.turns /\ u \in DOMAIN F.turns /\ M.turns[u] = F.turns[u]
        /\ M.current = F.current
    BY <1>7 DEF Resumes
  <2>2. N.turns[u] \in Builder /\ G.turns[u] \in Builder
    <3>1. N.turns \in Builders /\ G.turns \in Builders
      BY <1>6, <1>7 DEF Normalizer
    <3> QED BY <1>6, <2>1, <3>1, BuildersAre
  <2>3. CASE u # M.current
    BY <1>6, <1>7, <2>1, <2>3
  <2>4. CASE u = M.current
    <3>1. N.turns[u].usage = G.turns[u].usage
      BY <1>6, <1>7, <2>1, <2>4
    <3>2. /\ N.turns[u].sequence = G.turns[u].sequence
          /\ N.turns[u].started = G.turns[u].started
          /\ N.turns[u].emitted = G.turns[u].emitted
      BY <1>6, <1>7, <2>1
    <3> QED BY <2>2, <3>1, <3>2, SameBuilder
  <2> QED BY <2>3, <2>4
<1>9. \A u \in DOMAIN B.turns : u \in DOMAIN G.turns
                                 /\ (B.turns[u].emitted => G.turns[u].emitted)
  BY <1>6 DEF Resumes
<1>10. Resumes(B, N, G)
  BY <1>6, <1>7, <1>8, <1>9 DEF Resumes
<1> QED BY <1>4, <1>5, <1>10

LEMMA ResumedEnd ==
  ASSUME NEW tr \in Traces, NEW S, Ordered(S), NEW k \in Nat, k + 1 \in DOMAIN S,
         NEW F, Knows(tr, S, k, F), NEW B \in Normalizer, NEW M, Resumes(B, M, F),
         S[k + 1].kind = "ended"
  PROVE  Resumes(B, FinishTurn(tr, M, S[k + 1]), FinishTurn(tr, F, S[k + 1]))
<1> DEFINE r == S[k + 1]
           t == r.turn
<1>1. /\ F \in Normalizer /\ r \in Record /\ M \in Normalizer
      /\ \A u \in DOMAIN F.turns : F.turns[u] \in Builder
  BY Facts DEF Resumes
<1>2. t \in Nat /\ t \in DOMAIN F.turns /\ F.current = t /\ ~F.turns[t].emitted
  BY EndsCurrent
<1>3. t \in DOMAIN M.turns /\ M.current = t /\ M.turns[t] = F.turns[t]
  BY <1>2 DEF Resumes
<1>4. PICK G : G = FinishTurn(tr, F, r)
  OBVIOUS
<1>5. PICK N : N = FinishTurn(tr, M, r)
  OBVIOUS
<1> HIDE DEF r
<1>6. PICK x, d : /\ x = EndedTurn(tr, r, F.turns[t]) /\ x \in Turn
                  /\ d = DeferredEvidence(tr, t, F.turns[t]) /\ d \in Seq(Evidence)
  <2>1. F.turns[t] \in Builder
    BY <1>1, <1>2
  <2>2. EndedTurn(tr, r, F.turns[t]) \in Turn
    BY <1>1, <1>2, <2>1, EndedIs
  <2>3. DeferredEvidence(tr, t, F.turns[t]) \in Seq(Evidence)
    BY <1>2, <2>1, DeferredIs
  <2> QED BY <2>2, <2>3
<1>7. Finished(F, G, t, x, d)
  <2>1. Finished(F, FinishTurn(tr, F, r), r.turn, EndedTurn(tr, r, F.turns[r.turn]),
                 DeferredEvidence(tr, r.turn, F.turns[r.turn]))
    BY <1>1, <1>2, FinishIs
  <2> QED BY <1>4, <1>6, <2>1, Zenon
<1>8. Finished(M, N, t, x, d)
  <2>1. Finished(M, FinishTurn(tr, M, r), r.turn, EndedTurn(tr, r, M.turns[r.turn]),
                 DeferredEvidence(tr, r.turn, M.turns[r.turn]))
    <3>1. ~M.turns[r.turn].emitted
      BY <1>2, <1>3
    <3> QED BY <1>1, <1>2, <1>3, <3>1, FinishIs
  <2> QED BY <1>3, <1>5, <1>6, <2>1, Zenon
<1>9. /\ G.outTurns = Append(F.outTurns, x) /\ G.outEvidence = F.outEvidence \o d
      /\ N.outTurns = Append(M.outTurns, x) /\ N.outEvidence = M.outEvidence \o d
  BY <1>7, <1>8, Zenon DEF Finished
<1>10. /\ F.outTurns = B.outTurns \o M.outTurns
       /\ F.outEvidence = B.outEvidence \o M.outEvidence
       /\ B.outTurns \in Seq(Turn) /\ M.outTurns \in Seq(Turn)
       /\ B.outEvidence \in Seq(Evidence) /\ M.outEvidence \in Seq(Evidence)
  BY <1>1 DEF Resumes, Normalizer
<1>11. G.outTurns = B.outTurns \o N.outTurns
  <2>1. Append(B.outTurns \o M.outTurns, x) = B.outTurns \o Append(M.outTurns, x)
    <3>1. PICK a, b : a = B.outTurns /\ b = M.outTurns
      OBVIOUS
    <3>2. x \in Turn /\ a \in Seq(Turn) /\ b \in Seq(Turn)
      BY <1>6, <1>10, <3>1
    <3>3. Append(a \o b, x) = a \o Append(b, x)
      BY <3>2, ConcatAppend, Zenon
    <3> QED BY <3>1, <3>3, Zenon
  <2> QED BY <1>9, <1>10, <2>1
<1>12. G.outEvidence = B.outEvidence \o N.outEvidence
  <2>1. (B.outEvidence \o M.outEvidence) \o d = B.outEvidence \o (M.outEvidence \o d)
    <3>1. PICK a, b : a = B.outEvidence /\ b = M.outEvidence
      OBVIOUS
    <3>2. d \in Seq(Evidence) /\ a \in Seq(Evidence) /\ b \in Seq(Evidence)
      BY <1>6, <1>10, <3>1
    <3>3. (a \o b) \o d = a \o (b \o d)
      BY <3>2, ConcatConcat
    <3> QED BY <3>1, <3>3, Zenon
  <2> QED BY <1>9, <1>10, <2>1
<1> DEFINE Rest(n, m) ==
      /\ m \in Normalizer /\ m.current = NoTurn /\ m.next = n.next
      /\ DOMAIN m.turns = DOMAIN n.turns
      /\ \A u \in DOMAIN n.turns :
            /\ u # t => m.turns[u] = n.turns[u]
            /\ m.turns[u].sequence = n.turns[u].sequence
            /\ m.turns[u].started = n.turns[u].started
      /\ m.turns[t].usage = NoUsage /\ m.turns[t].emitted
<1>20. Rest(F, G) /\ Rest(M, N)
  BY <1>7, <1>8, Zenon DEF Finished
<1>13. ASSUME NEW u \in DOMAIN N.turns PROVE N.turns[u] = G.turns[u]
  <2>1. u \in DOMAIN M.turns /\ u \in DOMAIN F.turns /\ M.turns[u] = F.turns[u]
    BY <1>20 DEF Resumes
  <2>2. CASE u # t
    BY <1>20, <2>1, <2>2
  <2>3. CASE u = t
    <3>1. N.turns[u] \in Builder /\ G.turns[u] \in Builder
      <4>1. N.turns \in Builders /\ G.turns \in Builders
        BY <1>20 DEF Normalizer
      <4> QED BY <1>20, <2>1, <4>1, BuildersAre
    <3>2. N.turns[u].sequence = G.turns[u].sequence /\ N.turns[u].started = G.turns[u].started
      BY <1>20, <2>1
    <3>3. N.turns[u].usage = G.turns[u].usage
      BY <1>20, <2>3
    <3>4. N.turns[u].emitted /\ G.turns[u].emitted
      BY <1>20, <2>3
    <3>5. N.turns[u].emitted = G.turns[u].emitted
      BY <3>1, <3>4 DEF Builder
    <3> QED BY <3>1, <3>2, <3>3, <3>5, SameBuilder
  <2> QED BY <2>2, <2>3
<1>14. ASSUME NEW u \in DOMAIN B.turns
       PROVE  u \in DOMAIN G.turns /\ (B.turns[u].emitted => G.turns[u].emitted)
  <2>1. u \in DOMAIN F.turns /\ (B.turns[u].emitted => F.turns[u].emitted)
    BY DEF Resumes
  <2> QED BY <1>20, <2>1
<1>15. DOMAIN N.turns = {u \in DOMAIN G.turns : ~(u \in DOMAIN B.turns /\ B.turns[u].emitted)}
  BY <1>20 DEF Resumes
<1>16. N.next = G.next
  BY <1>20 DEF Resumes
<1>17. Resumes(B, N, G)
  BY <1>20, <1>11, <1>12, <1>13, <1>14, <1>15, <1>16 DEF Resumes
<1> QED BY <1>4, <1>5, <1>17 DEF r


LEMMA ResumedAccept ==
  ASSUME NEW tr \in Traces, NEW S, Ordered(S), NEW k \in Nat, k + 1 \in DOMAIN S,
         NEW F, Knows(tr, S, k, F), NEW B \in Normalizer, NEW M, Resumes(B, M, F)
  PROVE  Resumes(B, Accept(tr, M, S[k + 1], k + 1), Accept(tr, F, S[k + 1], k + 1))
<1> DEFINE r == S[k + 1]
<1>1. r \in Record
  BY Facts
<1>2. r.kind \in {"started", "usage", "ended"}
  BY <1>1 DEF Record
<1>3. CASE r.kind = "started"
  <2>1. \A n : Accept(tr, n, r, k + 1) = StartTurn(n, r)
    BY <1>3 DEF Accept
  <2>2. Resumes(B, StartTurn(M, S[k + 1]), StartTurn(F, S[k + 1]))
    BY <1>3, ResumedStart
  <2> QED BY <2>1, <2>2
<1>4. CASE r.kind = "usage"
  <2>1. \A n : Accept(tr, n, r, k + 1) = AcceptUsage(n, r, k + 1)
    BY <1>4 DEF Accept
  <2>2. Resumes(B, AcceptUsage(M, S[k + 1], k + 1), AcceptUsage(F, S[k + 1], k + 1))
    BY <1>4, ResumedUsage
  <2> QED BY <2>1, <2>2
<1>5. CASE r.kind = "ended"
  <2>1. \A n : Accept(tr, n, r, k + 1) = FinishTurn(tr, n, r)
    BY <1>5 DEF Accept
  <2>2. Resumes(B, FinishTurn(tr, M, S[k + 1]), FinishTurn(tr, F, S[k + 1]))
    BY <1>5, ResumedEnd
  <2> QED BY <2>1, <2>2
<1> QED BY <1>2, <1>3, <1>4, <1>5

LEMMA ResumedRead ==
  ASSUME NEW tr \in Traces, NEW S, Ordered(S), NEW b \in 0 .. Len(S), NEW k \in b .. Len(S),
         NEW n, Resumes(Read(tr, S, b), n, Read(tr, S, b))
  PROVE  Resumes(Read(tr, S, b), ReadForward(tr, S, n, b + 1, k), Read(tr, S, k))
<1> DEFINE M(i) == ReadForward(tr, S, n, b + 1, i)
           T == {i \in b .. Len(S) : ~Resumes(Read(tr, S, b), M(i), Read(tr, S, i))}
<1> SUFFICES ASSUME T # {} PROVE FALSE
  OBVIOUS
<1>1. DOMAIN S = 1 .. Len(S) /\ Len(S) \in Nat
  BY DEF Ordered
<1>2. b \in Nat /\ T \subseteq Nat /\ b + 1 \in Nat \ {0}
  BY <1>1
<1>3. PICK x \in T : \A y \in T : x <= y
  <2> HIDE DEF T
  <2> QED BY <1>2, LeastNumber
<1>4. x \in b .. Len(S) /\ ~Resumes(Read(tr, S, b), M(x), Read(tr, S, x))
  BY <1>3
<1>5. Read(tr, S, b) \in Normalizer
  BY ReplayKnown DEF Knows
<1>6. CASE x = b
  <2>1. M(x) = n
    <3>1. b < b + 1
      BY <1>2
    <3> QED BY <1>2, <1>6, <3>1, ReadNothing
  <2> QED BY <1>4, <1>6, <2>1
<1>7. CASE x # b
  <2>1. /\ x - 1 \in Nat /\ x - 1 \in b .. Len(S) /\ x - 1 \notin T /\ x \in DOMAIN S
        /\ x - 1 \in 0 .. Len(S) /\ x = (x - 1) + 1 /\ x \in Nat
    BY <1>1, <1>2, <1>3, <1>4, <1>7
  <2>2. ~(x < b + 1) /\ ~(x < 1) /\ 1 \in Nat \ {0}
    BY <1>2, <1>4, <1>7
  <2>3. M(x) = Accept(tr, M(x - 1), S[x], x)
    BY <1>2, <2>1, <2>2, ReadOne
  <2>4. Read(tr, S, x) = Accept(tr, Read(tr, S, x - 1), S[x], x)
    BY <2>1, <2>2, ReadOne DEF Read
  <2>5. Knows(tr, S, x - 1, Read(tr, S, x - 1))
    BY <2>1, ReplayKnown
  <2>6. Resumes(Read(tr, S, b), M(x - 1), Read(tr, S, x - 1))
    BY <2>1
  <2> HIDE DEF M, T
  <2>7. PICK h : h = x - 1
    OBVIOUS
  <2>8. /\ h \in Nat /\ h + 1 \in DOMAIN S /\ h + 1 = x
        /\ Knows(tr, S, h, Read(tr, S, h)) /\ Resumes(Read(tr, S, b), M(h), Read(tr, S, h))
    BY <2>1, <2>5, <2>6, <2>7
  <2>9. Resumes(Read(tr, S, b), Accept(tr, M(h), S[h + 1], h + 1),
                Accept(tr, Read(tr, S, h), S[h + 1], h + 1))
    BY <1>5, <2>8, ResumedAccept
  <2> QED BY <1>4, <2>3, <2>4, <2>7, <2>8, <2>9 DEF M
<1> QED BY <1>6, <1>7

LEMMA ResumedSnapshot ==
  ASSUME NEW B \in Normalizer, NEW M, NEW F \in Normalizer, Resumes(B, M, F)
  PROVE  Snapshot(M) = Snapshot(F)
<1>1. M \in Normalizer /\ M.current = F.current /\ M.next = F.next
  BY DEF Resumes
<1>2. DOMAIN Snapshot(M).turns = {u \in DOMAIN M.turns : ~M.turns[u].emitted}
  BY <1>1, SnapshotIs
<1>3. DOMAIN Snapshot(F).turns = {u \in DOMAIN F.turns : ~F.turns[u].emitted}
  BY SnapshotIs
<1>4. DOMAIN Snapshot(M).turns = DOMAIN Snapshot(F).turns
  BY <1>2, <1>3 DEF Resumes
<1>5. PICK D : D = DOMAIN Snapshot(F).turns
  OBVIOUS
<1>6. \A t \in D : M.turns[t] = F.turns[t]
  BY <1>2, <1>4, <1>5 DEF Resumes
<1>7. PICK f : f = [t \in D |-> F.turns[t]]
  OBVIOUS
<1>8. f = [t \in D |-> M.turns[t]]
  BY <1>6, <1>7
<1>9. Snapshot(F) = [turns |-> f, current |-> F.current, next |-> F.next,
                     outTurns |-> <<>>, outEvidence |-> <<>>]
  BY <1>5, <1>7, SnapshotIs
<1>10. Snapshot(M) = [turns |-> f, current |-> M.current, next |-> M.next,
                      outTurns |-> <<>>, outEvidence |-> <<>>]
  BY <1>1, <1>4, <1>5, <1>8, SnapshotIs
<1> QED BY <1>1, <1>9, <1>10


(* Whatever line a checkpoint was taken at, what a run resumed from it
   publishes is what a run from the beginning publishes beyond it, and it ends
   with the same checkpoint: nothing is lost, repeated or said differently. *)
THEOREM ResumesExactly ==
  ASSUME NEW tr \in Traces, NEW S, Ordered(S), NEW b \in 0 .. Len(S), NEW k \in b .. Len(S),
         NEW n, n = ReadForward(tr, S, Snapshot(Read(tr, S, b)), b + 1, k)
  PROVE  /\ Read(tr, S, k).outTurns = Read(tr, S, b).outTurns \o n.outTurns
         /\ Read(tr, S, k).outEvidence = Read(tr, S, b).outEvidence \o n.outEvidence
         /\ Snapshot(n) = Snapshot(Read(tr, S, k))
<1>1. k \in 0 .. Len(S)
  OBVIOUS
<1>2. Read(tr, S, b) \in Normalizer /\ Read(tr, S, k) \in Normalizer
  BY <1>1, ReplayKnown DEF Knows
<1>3. Resumes(Read(tr, S, b), Snapshot(Read(tr, S, b)), Read(tr, S, b))
  BY <1>2, ResumesAtCheckpoint
<1>4. Resumes(Read(tr, S, b), n, Read(tr, S, k))
  BY <1>3, ResumedRead
<1>5. Snapshot(n) = Snapshot(Read(tr, S, k))
  BY <1>2, <1>4, ResumedSnapshot
<1>6. /\ Read(tr, S, k).outTurns = Read(tr, S, b).outTurns \o n.outTurns
      /\ Read(tr, S, k).outEvidence = Read(tr, S, b).outEvidence \o n.outEvidence
  BY <1>4, Zenon DEF Resumes
<1> QED BY <1>5, <1>6, Zenon


-----------------------------------------------------------------------------
(* What is published, whatever its workstream *)

Items(s) == {s[i] : i \in DOMAIN s}

LEMMA ItemsConcat ==
  ASSUME NEW X, NEW a \in Seq(X), NEW b \in Seq(X)
  PROVE  Items(a \o b) = Items(a) \union Items(b)
<1>1. /\ a \o b \in Seq(X) /\ Len(a \o b) = Len(a) + Len(b)
      /\ \A i \in 1 .. Len(a) : (a \o b)[i] = a[i]
      /\ \A i \in 1 .. Len(b) : (a \o b)[Len(a) + i] = b[i]
  BY ConcatIs
<1>2. DOMAIN a = 1 .. Len(a) /\ DOMAIN b = 1 .. Len(b) /\ DOMAIN (a \o b) = 1 .. Len(a) + Len(b)
  BY <1>1
<1>3. ASSUME NEW x \in Items(a \o b) PROVE x \in Items(a) \union Items(b)
  <2>1. PICK i \in 1 .. Len(a) + Len(b) : x = (a \o b)[i]
    BY <1>2 DEF Items
  <2>2. i \in 1 .. Len(a) \/ (i - Len(a) \in 1 .. Len(b) /\ i = Len(a) + (i - Len(a)))
    BY <2>1
  <2> QED BY <1>1, <1>2, <2>1, <2>2 DEF Items
<1>4. ASSUME NEW x \in Items(a) PROVE x \in Items(a \o b)
  BY <1>1, <1>2 DEF Items
<1>5. ASSUME NEW x \in Items(b) PROVE x \in Items(a \o b)
  <2>1. PICK i \in 1 .. Len(b) : x = b[i]
    BY <1>2 DEF Items
  <2>2. Len(a) + i \in 1 .. Len(a) + Len(b)
    OBVIOUS
  <2> QED BY <1>1, <1>2, <2>1, <2>2 DEF Items
<1> QED BY <1>3, <1>4, <1>5

LEMMA AppendTo ==
  ASSUME NEW T, NEW x \in Seq(T), NEW y \in Seq(T), NEW c \in T,
         Len(y) = Len(x) + 1, y[Len(y)] = c, \A i \in 1 .. Len(x) : y[i] = x[i]
  PROVE  Append(x, c) = y
<1>1. Append(x, c) \in Seq(T) /\ Len(Append(x, c)) = Len(y)
  OBVIOUS
<1>2. \A i \in 1 .. Len(y) : Append(x, c)[i] = y[i]
  OBVIOUS
<1> QED BY <1>1, <1>2

LEMMA AppendPair ==
  ASSUME NEW T, NEW a \in T, NEW b \in T, NEW c \in T
  PROVE  Append(<<a, b>>, c) = <<a, b, c>>
<1>1. <<a, b>> \in Seq(T) /\ <<a, b, c>> \in Seq(T)
  OBVIOUS
<1>2. Len(<<a, b, c>>) = Len(<<a, b>>) + 1 /\ <<a, b, c>>[Len(<<a, b, c>>)] = c
  OBVIOUS
<1>3. \A i \in 1 .. Len(<<a, b>>) : <<a, b, c>>[i] = <<a, b>>[i]
  OBVIOUS
<1>4. PICK x, y : x = <<a, b>> /\ y = <<a, b, c>>
  OBVIOUS
<1>5. /\ x \in Seq(T) /\ y \in Seq(T) /\ Len(y) = Len(x) + 1 /\ y[Len(y)] = c
      /\ \A i \in 1 .. Len(x) : y[i] = x[i]
  BY <1>1, <1>2, <1>3, <1>4
<1>6. Append(x, c) = y
  BY <1>5, AppendTo
<1> QED BY <1>4, <1>6

(* The evidence of a turn of a subagent. *)
TurnEvidence(x) == [id |-> Append(x.id, 0), at |-> x.ended, content |-> x,
                    workstream |-> Unscoped]

LEMMA TurnEvidenceIs ==
  ASSUME NEW x \in Turn
  PROVE  TurnEvidence(x) \in Evidence /\ TurnEvidence(x).id = <<x.id[1], x.id[2], 0>>
<1>1. PICK a \in Traces, t \in Nat : x.id = <<a, t>>
  <2>1. x.id \in Traces \X Nat
    BY DEF Turn
  <2> QED BY <2>1
<1>2. Append(x.id, 0) = <<a, t, 0>>
  <2>1. PICK T : T = Traces \union Nat
    OBVIOUS
  <2>2. a \in T /\ t \in T /\ 0 \in T
    BY <2>1
  <2>3. Append(<<a, t>>, 0) = <<a, t, 0>>
    BY <2>2, AppendPair, Zenon
  <2> QED BY <1>1, <2>3, Zenon
<1>3. TurnEvidence(x) = [id |-> <<a, t, 0>>, at |-> x.ended, content |-> x,
                         workstream |-> Unscoped]
  BY <1>2 DEF TurnEvidence
<1>4. x.ended \in Nat
  BY DEF Turn
<1> HIDE DEF Traces
<1>5. TurnEvidence(x) \in Evidence
  BY <1>3, <1>4 DEF Evidence
<1>6. TurnEvidence(x).id = <<a, t, 0>>
  BY <1>3
<1> QED BY <1>1, <1>5, <1>6

(* What a rollout publishes as evidence. *)
Routed(tr, n) ==
    Items(n.outEvidence)
    \union (IF tr = Root THEN {} ELSE {TurnEvidence(x) : x \in Items(n.outTurns)})

LEMMA RouteEvidenceIs ==
  ASSUME NEW tr, NEW n \in Normalizer
  PROVE  RouteEvidence(tr, n) \in Seq(Evidence) /\ Items(RouteEvidence(tr, n)) = Routed(tr, n)
<1>1. PICK a, b : a = n.outTurns /\ b = n.outEvidence
  OBVIOUS
<1>2. a \in Seq(Turn) /\ b \in Seq(Evidence)
  BY <1>1 DEF Normalizer
<1>3. CASE tr = Root
  <2>1. RouteEvidence(tr, n) = b
    BY <1>1, <1>3 DEF RouteEvidence
  <2> QED BY <1>1, <1>2, <1>3, <2>1 DEF Routed
<1>4. CASE tr # Root
  <2> DEFINE c == [i \in DOMAIN a |-> TurnEvidence(a[i])]
  <2>1. RouteEvidence(tr, n) = b \o c
    BY <1>1, <1>4, Zenon DEF RouteEvidence, TurnEvidence
  <2>2. DOMAIN a = 1 .. Len(a) /\ Len(a) \in Nat /\ \A i \in DOMAIN a : a[i] \in Turn
    BY <1>2
  <2>3. \A i \in 1 .. Len(a) : TurnEvidence(a[i]) \in Evidence
    BY <2>2, TurnEvidenceIs
  <2>4. c = [i \in 1 .. Len(a) |-> TurnEvidence(a[i])]
    BY <2>2
  <2>5. c \in Seq(Evidence)
    BY <2>2, <2>3, <2>4
  <2>6. Items(c) = {TurnEvidence(x) : x \in Items(a)}
    BY DEF Items
  <2> HIDE DEF c
  <2>7. b \o c \in Seq(Evidence) /\ Items(b \o c) = Items(b) \union Items(c)
    BY <1>2, <2>5, ConcatIs, ItemsConcat
  <2> QED BY <1>1, <1>4, <2>1, <2>6, <2>7, Zenon DEF Routed
<1> QED BY <1>3, <1>4

(* What is read later is read in addition. *)
LEMMA ResumedRouted ==
  ASSUME NEW tr, NEW B \in Normalizer, NEW M, NEW F \in Normalizer, Resumes(B, M, F)
  PROVE  Routed(tr, F) = Routed(tr, B) \union Routed(tr, M)
<1>1. PICK a, b, c, d : /\ a = B.outTurns /\ b = B.outEvidence
                        /\ c = M.outTurns /\ d = M.outEvidence
  OBVIOUS
<1>2. a \in Seq(Turn) /\ b \in Seq(Evidence) /\ c \in Seq(Turn) /\ d \in Seq(Evidence)
  <2>1. M \in Normalizer
    BY DEF Resumes
  <2> QED BY <1>1, <2>1 DEF Normalizer
<1>3. Items(a \o c) = Items(a) \union Items(c) /\ Items(b \o d) = Items(b) \union Items(d)
  BY <1>2, ItemsConcat
<1>4. F.outTurns = a \o c /\ F.outEvidence = b \o d
  BY <1>1, Zenon DEF Resumes
<1>5. Items(F.outTurns) = Items(a) \union Items(c) /\ Items(F.outEvidence) = Items(b) \union Items(d)
  BY <1>3, <1>4, Zenon
<1> QED BY <1>1, <1>5 DEF Routed

LEMMA ReadMore ==
  ASSUME NEW tr \in Traces, NEW S, Ordered(S), NEW b \in 0 .. Len(S), NEW k \in b .. Len(S)
  PROVE  \E M \in Normalizer : Resumes(Read(tr, S, b), M, Read(tr, S, k))
<1>1. Read(tr, S, b) \in Normalizer
  BY ReplayKnown DEF Knows
<1>2. PICK n : n = Snapshot(Read(tr, S, b))
  OBVIOUS
<1>3. Resumes(Read(tr, S, b), n, Read(tr, S, b))
  BY <1>1, <1>2, ResumesAtCheckpoint
<1>4. Resumes(Read(tr, S, b), ReadForward(tr, S, n, b + 1, k), Read(tr, S, k))
  BY <1>3, ResumedRead
<1> QED BY <1>4 DEF Resumes

LEMMA RoutedGrows ==
  ASSUME NEW tr \in Traces, NEW S, Ordered(S), NEW b \in 0 .. Len(S), NEW k \in b .. Len(S)
  PROVE  Routed(tr, Read(tr, S, b)) \subseteq Routed(tr, Read(tr, S, k))
<1>1. PICK M \in Normalizer : Resumes(Read(tr, S, b), M, Read(tr, S, k))
  BY ReadMore
<1>2. k \in 0 .. Len(S)
  OBVIOUS
<1>3. Read(tr, S, b) \in Normalizer /\ Read(tr, S, k) \in Normalizer
  BY <1>2, ReplayKnown DEF Knows
<1>4. PICK B, F : B = Read(tr, S, b) /\ F = Read(tr, S, k)
  OBVIOUS
<1>5. Routed(tr, F) = Routed(tr, B) \union Routed(tr, M)
  <2>1. B \in Normalizer /\ F \in Normalizer
    BY <1>3, <1>4
  <2>2. Resumes(B, M, F)
    BY <1>1, <1>4
  <2> QED BY <2>1, <2>2, ResumedRouted
<1> QED BY <1>4, <1>5

(* A file, or a batch of records stamped for it, follows f from p if it holds
   the records of f from p + 1 on, in their order and but for workstreams. *)
Restamped(x, w) == [x EXCEPT !.workstream = w]

Follows(lines, f, p) ==
    /\ p + Len(lines) <= Len(f)
    /\ \A i \in 1 .. Len(lines) : lines[i] = Restamped(f[p + i], lines[i].workstream)

LEMMA RestampedIs ==
  ASSUME NEW w
  PROVE  /\ \A x \in Turn : /\ Restamped(x, w).id = x.id /\ Restamped(x, w).refs = x.refs
                            /\ Restamped(x, w).started = x.started
                            /\ Restamped(x, w).workstream = w
                            /\ w \in Workstreams \union {Unscoped} => Restamped(x, w) \in Turn
         /\ \A x \in Evidence : /\ Restamped(x, w).id = x.id /\ Restamped(x, w).at = x.at
                                /\ Restamped(x, w).workstream = w
                                /\ w \in Workstreams \union {Unscoped} =>
                                      Restamped(x, w) \in Evidence
BY DEF Restamped, Turn, Evidence

LEMMA FollowsIds ==
  ASSUME NEW f \in Seq(Turn), NEW lines \in Seq(Turn), NEW p \in Nat, Follows(lines, f, p)
  PROVE  \A i \in 1 .. Len(lines) :
            /\ p + i \in 1 .. Len(f) /\ f[p + i] \in Turn
            /\ lines[i].id = f[p + i].id /\ lines[i].refs = f[p + i].refs
            /\ lines[i].started = f[p + i].started
<1> SUFFICES ASSUME NEW i \in 1 .. Len(lines)
             PROVE  /\ p + i \in 1 .. Len(f) /\ f[p + i] \in Turn
                    /\ lines[i].id = f[p + i].id /\ lines[i].refs = f[p + i].refs
                    /\ lines[i].started = f[p + i].started
  OBVIOUS
<1>1. p + i \in 1 .. Len(f)
  BY DEF Follows
<1>2. f[p + i] \in Turn
  BY <1>1
<1>3. PICK w, x : x = f[p + i] /\ lines[i] = Restamped(x, w)
  BY DEF Follows
<1>4. /\ Restamped(x, w).id = x.id /\ Restamped(x, w).refs = x.refs
      /\ Restamped(x, w).started = x.started
  BY <1>2, <1>3, RestampedIs
<1> QED BY <1>1, <1>2, <1>3, <1>4


-----------------------------------------------------------------------------
(* Appends *)

LEMMA FreshNone ==
  ASSUME NEW known, NEW batch
  PROVE  Fresh(known, batch, 0) = <<>>
<1>1. Fresh(known, batch, 0) =
            IF 0 = 0 THEN <<>>
            ELSE IF batch[0].id \in known \union Ids(Fresh(known, batch, 0 - 1))
            THEN Fresh(known, batch, 0 - 1)
            ELSE Append(Fresh(known, batch, 0 - 1), batch[0])
  BY FreshStep
<1> QED BY <1>1

LEMMA FreshNext ==
  ASSUME NEW known, NEW batch, NEW k \in Nat, k # 0
  PROVE  /\ batch[k].id \in known \union Ids(Fresh(known, batch, k - 1))
               => Fresh(known, batch, k) = Fresh(known, batch, k - 1)
         /\ batch[k].id \notin known \union Ids(Fresh(known, batch, k - 1))
               => Fresh(known, batch, k) = Append(Fresh(known, batch, k - 1), batch[k])
<1>1. Fresh(known, batch, k) =
            IF k = 0 THEN <<>>
            ELSE IF batch[k].id \in known \union Ids(Fresh(known, batch, k - 1))
            THEN Fresh(known, batch, k - 1)
            ELSE Append(Fresh(known, batch, k - 1), batch[k])
  BY FreshStep
<1> QED BY <1>1

(* What is new is of the batch, and afterwards all of the batch is known. *)
LEMMA FreshCovers ==
  ASSUME NEW X, NEW known, NEW batch \in Seq(X), NEW k \in 0 .. Len(batch)
  PROVE  /\ Fresh(known, batch, k) \in Seq(X)
         /\ Items(Fresh(known, batch, k)) \subseteq Items(batch)
         /\ \A i \in 1 .. k : batch[i].id \in known \union Ids(Fresh(known, batch, k))
<1> DEFINE Good(i) == /\ Fresh(known, batch, i) \in Seq(X)
                      /\ Items(Fresh(known, batch, i)) \subseteq Items(batch)
                      /\ \A j \in 1 .. i :
                            batch[j].id \in known \union Ids(Fresh(known, batch, i))
           T == {i \in 0 .. Len(batch) : ~Good(i)}
<1> SUFFICES ASSUME T # {} PROVE FALSE
  OBVIOUS
<1>1. T \subseteq Nat
  OBVIOUS
<1>2. PICK m \in T : \A y \in T : m <= y
  <2> HIDE DEF T
  <2> QED BY <1>1, LeastNumber
<1>3. m \in 0 .. Len(batch) /\ ~Good(m)
  BY <1>2
<1>4. CASE m = 0
  <2>1. Fresh(known, batch, m) = <<>>
    BY <1>4, FreshNone
  <2>2. <<>> \in Seq(X) /\ Items(<<>>) = {} /\ 1 .. m = {}
    BY <1>4 DEF Items
  <2> QED BY <1>3, <2>1, <2>2
<1>5. CASE m # 0
  <2>1. m - 1 \in 0 .. Len(batch) /\ m - 1 \notin T /\ m \in Nat /\ m \in 1 .. Len(batch)
    BY <1>2, <1>3, <1>5
  <2>2. Good(m - 1)
    BY <2>1
  <2>3. batch[m] \in X /\ batch[m] \in Items(batch)
    BY <2>1 DEF Items
  <2>4. PICK f : f = Fresh(known, batch, m - 1)
    OBVIOUS
  <2>5. 1 .. m = 1 .. m - 1 \union {m}
    BY <2>1
  <2>6. f \in Seq(X) /\ Items(f) \subseteq Items(batch)
        /\ \A j \in 1 .. m - 1 : batch[j].id \in known \union Ids(f)
    BY <2>2, <2>4
  <2>7. CASE batch[m].id \in known \union Ids(f)
    <3>1. Fresh(known, batch, m) = f
      BY <1>5, <2>1, <2>4, <2>7, FreshNext
    <3> QED BY <1>3, <2>5, <2>6, <2>7, <3>1
  <2>8. CASE batch[m].id \notin known \union Ids(f)
    <3>1. Fresh(known, batch, m) = Append(f, batch[m])
      BY <1>5, <2>1, <2>4, <2>8, FreshNext
    <3>2. PICK x : x = batch[m]
      OBVIOUS
    <3>3. /\ Append(f, x) \in Seq(X) /\ Items(Append(f, x)) = Items(f) \union {x}
          /\ Ids(Append(f, x)) = Ids(f) \union {x.id}
      <4>1. x \in X
        BY <2>3, <3>2
      <4>2. /\ Append(f, x) \in Seq(X) /\ DOMAIN Append(f, x) = DOMAIN f \union {Len(f) + 1}
            /\ \A i \in DOMAIN f : Append(f, x)[i] = f[i]
            /\ Append(f, x)[Len(f) + 1] = x
        BY <2>6, <4>1
      <4> QED BY <2>6, <4>1, <4>2, IdsAppend DEF Items
    <3> QED BY <1>3, <2>3, <2>5, <2>6, <3>1, <3>2, <3>3
  <2> QED BY <2>7, <2>8
<1> QED BY <1>4, <1>5

(* If it is the first of a batch that are known, the others are new. *)
KnowsFirst(known, batch, q) ==
    /\ q \in 0 .. Len(batch)
    /\ \A i \in 1 .. Len(batch) : batch[i].id \in known <=> i <= q
    /\ \A i, j \in 1 .. Len(batch) : batch[i].id = batch[j].id => i = j

IsTail(X, f, batch, q) ==
    /\ f \in Seq(X) /\ Len(f) = Len(batch) - q
    /\ \A i \in 1 .. Len(batch) - q : f[i] = batch[q + i]

LEMMA FreshTail ==
  ASSUME NEW X, NEW known, NEW batch \in Seq(X), NEW q, KnowsFirst(known, batch, q)
  PROVE  IsTail(X, Fresh(known, batch, Len(batch)), batch, q)
<1> SUFFICES ASSUME q \in 0 .. Len(batch),
                    \A i \in 1 .. Len(batch) : batch[i].id \in known <=> i <= q,
                    \A i, j \in 1 .. Len(batch) : batch[i].id = batch[j].id => i = j,
                    NEW k \in q .. Len(batch), k = Len(batch)
             PROVE  LET f == Fresh(known, batch, k)
                    IN  f \in Seq(X) /\ Len(f) = k - q
                        /\ \A i \in 1 .. k - q : f[i] = batch[q + i]
  <2>1. Len(batch) \in q .. Len(batch)
    BY DEF KnowsFirst
  <2> QED BY <2>1 DEF KnowsFirst, IsTail
<1> DEFINE G(i) == Fresh(known, batch, i)
           Good(i) == IF i <= q THEN G(i) = <<>>
                      ELSE G(i) \in Seq(X) /\ Len(G(i)) = i - q
                           /\ \A j \in 1 .. i - q : G(i)[j] = batch[q + j]
           T == {i \in 0 .. Len(batch) : ~Good(i)}
<1>1. \A i \in 0 .. Len(batch) : Good(i)
  <2> SUFFICES ASSUME T # {} PROVE FALSE
    OBVIOUS
  <2>1. T \subseteq Nat
    OBVIOUS
  <2>2. PICK m \in T : \A y \in T : m <= y
    <3> HIDE DEF T
    <3> QED BY <2>1, LeastNumber
  <2>3. m \in 0 .. Len(batch) /\ ~Good(m)
    BY <2>2
  <2>4. CASE m = 0
    BY <2>3, <2>4, FreshNone
  <2>5. CASE m # 0
    <3>1. m - 1 \in 0 .. Len(batch) /\ m - 1 \notin T /\ m \in Nat /\ m \in 1 .. Len(batch)
      <4>1. m - 1 \in 0 .. Len(batch) /\ m \in Nat /\ m \in 1 .. Len(batch) /\ ~(m <= m - 1)
        BY <2>3, <2>5
      <4> HIDE DEF T
      <4> QED BY <2>2, <4>1
    <3>2. Good(m - 1)
      <4> HIDE DEF Good
      <4> QED BY <3>1
    <3>3. CASE m <= q
      <4>1. G(m - 1) = <<>> /\ batch[m].id \in known
        BY <3>1, <3>2, <3>3
      <4>2. G(m) = G(m - 1)
        BY <2>5, <3>1, <4>1, FreshNext
      <4> QED BY <2>3, <3>3, <4>1, <4>2
    <3>4. CASE ~(m <= q)
      <4>1. PICK f : f = G(m - 1)
        OBVIOUS
      <4>2. f \in Seq(X) /\ Len(f) = m - 1 - q /\ \A j \in 1 .. m - 1 - q : f[j] = batch[q + j]
        <5>1. CASE m - 1 <= q
          <6>1. f = <<>> /\ m - 1 - q = 0
            BY <3>1, <3>2, <3>4, <4>1, <5>1
          <6> QED BY <6>1
        <5>2. CASE ~(m - 1 <= q)
          BY <3>2, <4>1, <5>2
        <5> QED BY <5>1, <5>2
      <4>3. batch[m].id \notin known
        BY <3>1, <3>4
      <4>4. batch[m].id \notin Ids(f)
        <5> SUFFICES ASSUME NEW i \in DOMAIN f, f[i].id = batch[m].id PROVE FALSE
          BY DEF Ids
        <5>1. i \in 1 .. m - 1 - q
          BY <4>2
        <5>2. q + i \in 1 .. Len(batch) /\ q + i # m
          BY <3>1, <5>1
        <5>3. f[i] = batch[q + i]
          BY <4>2, <5>1
        <5> QED BY <3>1, <5>2, <5>3
      <4>5. G(m) = Append(f, batch[m])
        BY <2>5, <3>1, <4>1, <4>3, <4>4, FreshNext
      <4>6. PICK x : x = batch[m] /\ x \in X
        BY <3>1
      <4>7. /\ Append(f, x) \in Seq(X) /\ Len(Append(f, x)) = m - q
            /\ \A j \in 1 .. m - 1 - q : Append(f, x)[j] = f[j]
            /\ Append(f, x)[m - q] = x
        BY <3>1, <4>2, <4>6
      <4>8. ASSUME NEW j \in 1 .. m - q PROVE Append(f, x)[j] = batch[q + j]
        <5>1. j \in 1 .. m - 1 - q \/ (j = m - q /\ q + j = m)
          BY <3>1, <3>4
        <5> QED BY <4>2, <4>6, <4>7, <5>1
      <4> HIDE DEF G
      <4> QED BY <2>3, <3>4, <4>5, <4>6, <4>7, <4>8
    <3> QED BY <3>3, <3>4
  <2> QED BY <2>4, <2>5
<1>2. Good(k) /\ k \in 0 .. Len(batch)
  BY <1>1
<1>3. CASE k <= q
  <2>1. G(k) = <<>> /\ k - q = 0
    BY <1>2, <1>3
  <2> QED BY <2>1
<1>4. CASE ~(k <= q)
  BY <1>2, <1>4
<1> QED BY <1>3, <1>4


-----------------------------------------------------------------------------
(* Stamps *)

Membership == [workstream : Workstreams, from : Nat, made : Nat, turn : Nat \union {NoTurn}]

LEMMA MaxIs ==
  ASSUME NEW T, T \subseteq Nat, T # {}, NEW n \in Nat, \A x \in T : x <= n
  PROVE  Max(T) \in T /\ \A y \in T : Max(T) >= y
<1> DEFINE D == {n - x : x \in T}
<1>1. D \subseteq Nat /\ D # {}
  OBVIOUS
<1>2. PICK d \in D : \A e \in D : d <= e
  <2> HIDE DEF D
  <2> QED BY <1>1, LeastNumber
<1>3. PICK x \in T : d = n - x
  BY <1>2
<1>4. ASSUME NEW y \in T PROVE x >= y
  <2>1. n - y \in D /\ x \in Nat /\ y \in Nat
    OBVIOUS
  <2>2. d <= n - y
    BY <1>2, <2>1
  <2> QED BY <1>3, <2>1, <2>2
<1>5. \E z \in T : \A y \in T : z >= y
  BY <1>4
<1> QED BY <1>5 DEF Max

(* The membership in effect is the last of those, from the first on, that
   count by then. *)
InEffect(log, t, k) ==
    /\ k \in 0 .. Len(log) /\ \A j \in 1 .. k : log[j].from <= t
    /\ k < Len(log) => log[k + 1].from > t

LEMMA MembershipAtIs ==
  ASSUME NEW log \in Seq(Membership), NEW t \in Nat
  PROVE  \E k \in 0 .. Len(log) :
            /\ InEffect(log, t, k)
            /\ MembershipAt(log, t) = IF k = 0 THEN Unscoped ELSE log[k].workstream
<1> DEFINE T == {0} \union {i \in DOMAIN log : \A j \in 1 .. i : log[j].from <= t}
<1>1. T \subseteq Nat /\ T # {} /\ \A x \in T : x <= Len(log)
  OBVIOUS
<1>2. PICK k : k = Max(T)
  OBVIOUS
<1>3. k \in T /\ \A y \in T : k >= y
  <2> HIDE DEF T
  <2>1. Len(log) \in Nat
    OBVIOUS
  <2> QED BY <1>1, <1>2, <2>1, MaxIs
<1>4. k \in 0 .. Len(log) /\ \A j \in 1 .. k : log[j].from <= t
  BY <1>3
<1>5. ASSUME k < Len(log), ~(log[k + 1].from > t) PROVE FALSE
  <2>1. k + 1 \in DOMAIN log /\ log[k + 1] \in Membership
    BY <1>4, <1>5
  <2>2. log[k + 1].from \in Nat
    BY <2>1 DEF Membership
  <2>3. \A j \in 1 .. k + 1 : j \in 1 .. k \/ j = k + 1
    BY <1>4
  <2>4. \A j \in 1 .. k + 1 : log[j].from <= t
    BY <1>4, <1>5, <2>2, <2>3
  <2>5. k + 1 \in T
    BY <2>1, <2>4
  <2> QED BY <1>3, <1>4, <2>5
<1>6. MembershipAt(log, t) = IF k = 0 THEN Unscoped ELSE log[k].workstream
  BY <1>2 DEF MembershipAt
<1> QED BY <1>4, <1>5, <1>6 DEF InEffect

LEMMA MembershipAtType ==
  ASSUME NEW log \in Seq(Membership), NEW t \in Nat
  PROVE  MembershipAt(log, t) \in Workstreams \union {Unscoped}
<1>1. PICK k \in 0 .. Len(log) :
        MembershipAt(log, t) = IF k = 0 THEN Unscoped ELSE log[k].workstream
  BY MembershipAtIs
<1>2. k # 0 => log[k] \in Membership
  OBVIOUS
<1> QED BY <1>1, <1>2 DEF Membership

LEMMA StampTurnsIs ==
  ASSUME NEW log \in Seq(Membership), NEW turns \in Seq(Turn)
  PROVE  /\ StampTurns(turns, log) \in Seq(Turn)
         /\ Len(StampTurns(turns, log)) = Len(turns)
         /\ \A i \in 1 .. Len(turns) : StampTurns(turns, log)[i]
               = Restamped(turns[i], MembershipAt(log, turns[i].started))
<1>1. DOMAIN turns = 1 .. Len(turns) /\ Len(turns) \in Nat
  OBVIOUS
<1> DEFINE e(i) == Restamped(turns[i], MembershipAt(log, turns[i].started))
<1>2. StampTurns(turns, log) = [i \in 1 .. Len(turns) |-> e(i)]
  BY <1>1 DEF StampTurns, Restamped
<1>3. ASSUME NEW i \in 1 .. Len(turns) PROVE e(i) \in Turn
  <2>1. PICK x : x = turns[i] /\ x \in Turn
    BY <1>1
  <2>2. x.started \in Nat
    BY <2>1 DEF Turn
  <2>3. MembershipAt(log, x.started) \in Workstreams \union {Unscoped}
    BY <2>2, MembershipAtType
  <2> QED BY <2>1, <2>3, RestampedIs
<1> HIDE DEF e
<1>4. [i \in 1 .. Len(turns) |-> e(i)] \in Seq(Turn)
  BY <1>1, <1>3
<1>5. Len([i \in 1 .. Len(turns) |-> e(i)]) = Len(turns)
  BY <1>1
<1>6. \A i \in 1 .. Len(turns) : StampTurns(turns, log)[i] = e(i)
  BY <1>2
<1> QED BY <1>2, <1>4, <1>5, <1>6 DEF e

LEMMA StampEvidenceIs ==
  ASSUME NEW log \in Seq(Membership), NEW records \in Seq(Evidence)
  PROVE  /\ StampEvidence(records, log) \in Seq(Evidence)
         /\ Len(StampEvidence(records, log)) = Len(records)
         /\ \A i \in 1 .. Len(records) : StampEvidence(records, log)[i]
               = Restamped(records[i], MembershipAt(log, records[i].at))
<1>1. DOMAIN records = 1 .. Len(records) /\ Len(records) \in Nat
  OBVIOUS
<1> DEFINE e(i) == Restamped(records[i], MembershipAt(log, records[i].at))
<1>2. StampEvidence(records, log) = [i \in 1 .. Len(records) |-> e(i)]
  BY <1>1 DEF StampEvidence, Restamped
<1>3. ASSUME NEW i \in 1 .. Len(records) PROVE e(i) \in Evidence
  <2>1. PICK x : x = records[i] /\ x \in Evidence
    BY <1>1
  <2>2. x.at \in Nat
    BY <2>1 DEF Evidence
  <2>3. MembershipAt(log, x.at) \in Workstreams \union {Unscoped}
    BY <2>2, MembershipAtType
  <2> QED BY <2>1, <2>3, RestampedIs
<1> HIDE DEF e
<1>4. [i \in 1 .. Len(records) |-> e(i)] \in Seq(Evidence)
  BY <1>1, <1>3
<1>5. Len([i \in 1 .. Len(records) |-> e(i)]) = Len(records)
  BY <1>1
<1>6. \A i \in 1 .. Len(records) : StampEvidence(records, log)[i] = e(i)
  BY <1>2
<1> QED BY <1>2, <1>4, <1>5, <1>6 DEF e

(* An append, whole or not, adds the first of what is new. *)
Files(X) == [lines : Seq(X), torn : BOOLEAN]

LEMMA HealIs ==
  ASSUME NEW X, NEW file \in Files(X)
  PROVE  /\ HealTail(file) \in Files(X) /\ HealTail(file).lines = file.lines
         /\ ~HealTail(file).torn
BY DEF HealTail, Files

LEMMA WriteIs ==
  ASSUME NEW X, NEW file \in Files(X), ~file.torn, NEW f \in Seq(X)
  PROVE  /\ WriteLines(file, f) \in Files(X) /\ WriteLines(file, f).lines = file.lines \o f
<1>1. PICK l : l = file.lines /\ l \in Seq(X)
  BY DEF Files
<1>2. PICK g : g = l \o f
  OBVIOUS
<1>3. g \in Seq(X)
  BY <1>1, <1>2, ConcatIs
<1>4. file.lines \o (IF file.torn /\ f # <<>> THEN Tail(f) ELSE f) = g
  BY <1>1, <1>2, Zenon
<1>5. WriteLines(file, f) = [lines |-> g, torn |-> file.torn /\ f = <<>>]
  BY <1>4, Zenon DEF WriteLines
<1>6. (file.torn /\ f = <<>>) = FALSE
  OBVIOUS
<1>7. WriteLines(file, f) \in Files(X) /\ WriteLines(file, f).lines = g
  BY <1>3, <1>5, <1>6 DEF Files
<1> QED BY <1>1, <1>2, <1>7, Zenon

New(file, batch) == Fresh(Ids(file.lines), batch, Len(batch))

LEMMA NewIs ==
  ASSUME NEW X, NEW file \in Files(X), NEW batch \in Seq(X)
  PROVE  /\ New(file, batch) \in Seq(X)
         /\ Unpublished(HealTail(file), batch) = New(file, batch)
         /\ batch = <<>> => New(file, batch) = <<>>
<1>1. Len(batch) \in 0 .. Len(batch)
  OBVIOUS
<1>2. HealTail(file).lines = file.lines
  BY HealIs
<1>3. batch = <<>> => Len(batch) = 0
  OBVIOUS
<1> QED BY <1>1, <1>2, <1>3, FreshCovers, FreshNone DEF New, Unpublished

LEMMA AppendUniqueIs ==
  ASSUME NEW X, NEW file \in Files(X), NEW batch \in Seq(X)
  PROVE  /\ AppendUnique(file, batch) \in Files(X)
         /\ AppendUnique(file, batch).lines = file.lines \o New(file, batch)
<1>1. PICK l, f : l = file.lines /\ f = New(file, batch)
  OBVIOUS
<1>2. l \in Seq(X) /\ f \in Seq(X)
  BY <1>1, NewIs DEF Files
<1>3. CASE batch = <<>>
  <2>1. f = <<>>
    BY <1>1, <1>3, NewIs
  <2>2. l \o f = l
    BY <1>2, <2>1, ConcatNothing
  <2>3. AppendUnique(file, batch) = file
    BY <1>3 DEF AppendUnique
  <2> QED BY <1>1, <2>2, <2>3, Zenon
<1>4. CASE batch # <<>>
  <2>1. AppendUnique(file, batch) = WriteLines(HealTail(file), f)
    BY <1>1, <1>4, NewIs DEF AppendUnique
  <2>2. PICK g : g = HealTail(file)
    OBVIOUS
  <2>3. g \in Files(X) /\ g.lines = l /\ ~g.torn
    BY <1>1, <2>2, HealIs
  <2>4. WriteLines(g, f) \in Files(X) /\ WriteLines(g, f).lines = g.lines \o f
    BY <1>2, <2>3, WriteIs
  <2>5. WriteLines(g, f).lines = l \o f
    BY <2>3, <2>4, Zenon
  <2> QED BY <1>1, <2>1, <2>2, <2>4, <2>5, Zenon
<1> QED BY <1>3, <1>4

LEMMA AppendInterruptedIs ==
  ASSUME NEW X, NEW file \in Files(X), NEW batch \in Seq(X),
         NEW file2 \in AppendInterrupted(file, batch)
  PROVE  /\ file2 \in Files(X)
         /\ \E k \in 0 .. Len(New(file, batch)) :
               file2.lines = file.lines \o SubSeq(New(file, batch), 1, k)
<1> DEFINE g == HealTail(file)
           f == Unpublished(g, batch)
           l == file.lines
           W(k, torn) == [WriteLines(g, SubSeq(f, 1, k)) EXCEPT !.torn = torn]
           B == IF f = <<>> THEN {FALSE} ELSE BOOLEAN
<1>0. AppendInterrupted(file, batch) =
            IF batch = <<>> THEN {file}
            ELSE {file} \union {W(k, torn) : k \in 0 .. Len(f), torn \in B}
  BY DEF AppendInterrupted
<1>1. B \subseteq BOOLEAN /\ f = New(file, batch)
  BY NewIs
<1> HIDE DEF W, B, f
<1>2. /\ l \in Seq(X) /\ f \in Seq(X) 
      /\ g \in Files(X) /\ g.lines = l /\ ~g.torn
  BY <1>1, NewIs, HealIs DEF Files
<1>3. CASE file2 = file
  <2>1. SubSeq(f, 1, 0) = <<>> /\ 0 \in 0 .. Len(f)
    BY <1>2
  <2>2. l \o SubSeq(f, 1, 0) = l
    BY <1>2, <2>1, ConcatNothing
  <2>3. \E k \in 0 .. Len(f) : l = l \o SubSeq(f, 1, k)
    BY <2>1, <2>2
  <2> QED BY <1>1, <1>3, <2>3
<1>4. CASE file2 # file
  <2>3. PICK k \in 0 .. Len(f), torn \in B : file2 = W(k, torn)
    BY <1>0, <1>4
  <2>4. PICK h : h = SubSeq(f, 1, k)
    OBVIOUS
  <2>5. h \in Seq(X)
    BY <1>2, <2>3, <2>4
  <2>6. WriteLines(g, h) \in Files(X) /\ WriteLines(g, h).lines = g.lines \o h
    BY <1>2, <2>5, WriteIs
  <2>7. PICK v, w : v = WriteLines(g, h) /\ w = l \o h
    OBVIOUS
  <2>8. v \in Files(X) /\ v.lines = w
    BY <1>2, <2>6, <2>7, Zenon
  <2>9. file2 = [v EXCEPT !.torn = torn] /\ torn \in BOOLEAN
    BY <1>1, <2>3, <2>4, <2>7 DEF W
  <2>10. file2 \in Files(X) /\ file2.lines = w
    BY <2>8, <2>9 DEF Files
  <2>11. \E i \in 0 .. Len(f) : file2.lines = l \o SubSeq(f, 1, i)
    BY <2>3, <2>4, <2>7, <2>10, Zenon
  <2> QED BY <1>1, <2>10, <2>11, Zenon
<1> QED BY <1>3, <1>4


(* What an append does to the feed: if the feed holds the first turns of f, and
   the batch is some of the turns of f that follow ones it holds, then it holds
   the first turns of f afterwards, those of the batch included if the append
   was whole. *)
Distinct(f) == \A i, j \in 1 .. Len(f) : f[i].id = f[j].id => i = j

FeedMore(f, lines, batch, l) ==
    /\ l \in Seq(Turn) /\ Follows(l, f, 0) /\ DOMAIN lines \subseteq DOMAIN l
    /\ Items(l) \subseteq Items(lines) \union Items(batch)

Reaches(lines, n) == n <= Len(lines)

LEMMA FeedGrows ==
  ASSUME NEW f \in Seq(Turn), Distinct(f), NEW lines \in Seq(Turn), Follows(lines, f, 0),
         NEW p \in Nat, Reaches(lines, p), NEW batch \in Seq(Turn), Follows(batch, f, p),
         NEW g, g = Fresh(Ids(lines), batch, Len(batch)),
         NEW k \in 0 .. Len(g), NEW l, l = lines \o SubSeq(g, 1, k)
  PROVE  FeedMore(f, lines, batch, l) /\ (k = Len(g) => Reaches(l, p + Len(batch)))
<1>1. PICK m, b, n : m = Len(lines) /\ b = Len(batch) /\ n = Len(f)
  OBVIOUS
<1>2. lines \in Seq(Turn) /\ m \in Nat /\ b \in Nat /\ n \in Nat /\ p <= m /\ m <= n /\ p + b <= n
  BY <1>1 DEF Follows, Reaches
<1>3. \A i \in 1 .. m : lines[i].id = f[i].id
  <2>1. Follows(lines, f, 0)
    OBVIOUS
  <2>2. \A i \in 1 .. Len(lines) : lines[i].id = f[0 + i].id
    BY <1>2, <2>1, FollowsIds
  <2>3. \A i \in 1 .. m : 0 + i = i
    OBVIOUS
  <2> QED BY <1>1, <2>2, <2>3
<1>4. \A i \in 1 .. b : batch[i].id = f[p + i].id
  BY <1>1, FollowsIds
<1>5. PICK q : q = IF m - p <= b THEN m - p ELSE b
  OBVIOUS
<1>6. q \in 0 .. b
  BY <1>2, <1>5
<1>7. ASSUME NEW i \in 1 .. b PROVE batch[i].id \in Ids(lines) <=> i <= q
  <2>1. p + i \in 1 .. n
    BY <1>2
  <2>2. CASE i <= q
    <3>1. p + i \in 1 .. m
      BY <1>2, <1>5, <2>2
    <3>2. lines[p + i].id = batch[i].id /\ p + i \in DOMAIN lines
      BY <1>1, <1>2, <1>3, <1>4, <3>1
    <3> QED BY <2>2, <3>2 DEF Ids
  <2>3. CASE ~(i <= q)
    <3>1. p + i > m
      BY <1>2, <1>5, <2>3
    <3>2. SUFFICES ASSUME NEW j \in DOMAIN lines, lines[j].id = batch[i].id PROVE FALSE
      BY <2>3 DEF Ids
    <3>3. j \in 1 .. m /\ j \in 1 .. n
      BY <1>1, <1>2
    <3>4. f[j].id = f[p + i].id
      BY <1>3, <1>4, <3>2, <3>3
    <3>5. PICK c : c = p + i
      OBVIOUS
    <3>6. j = c
      <4>1. j \in 1 .. Len(f) /\ c \in 1 .. Len(f) /\ f[j].id = f[c].id
        BY <1>1, <2>1, <3>3, <3>4, <3>5
      <4> QED BY <4>1 DEF Distinct
    <3> QED BY <1>2, <3>1, <3>3, <3>5, <3>6
  <2> QED BY <2>2, <2>3
<1>8. ASSUME NEW i \in 1 .. b, NEW j \in 1 .. b, batch[i].id = batch[j].id PROVE i = j
  <2>1. p + i \in 1 .. n /\ p + j \in 1 .. n /\ f[p + i].id = f[p + j].id
    BY <1>2, <1>4, <1>8
  <2>2. p + i = p + j
    BY <1>1, <2>1 DEF Distinct
  <2> QED BY <2>2
<1>10. g \in Seq(Turn) /\ Len(g) = b - q /\ \A i \in 1 .. b - q : g[i] = batch[q + i]
  <2>1. PICK known : known = Ids(lines)
    OBVIOUS
  <2>2. KnowsFirst(known, batch, q)
    BY <1>1, <1>2, <1>6, <1>7, <1>8, <2>1 DEF KnowsFirst
  <2>3. IsTail(Turn, Fresh(known, batch, Len(batch)), batch, q)
    BY <2>2, FreshTail, Zenon
  <2>4. IsTail(Turn, g, batch, q)
    BY <2>1, <2>3, Zenon
  <2> QED BY <1>1, <2>4 DEF IsTail
<1>11. PICK h : h = SubSeq(g, 1, k)
  OBVIOUS
<1>12. k \in 0 .. Len(g) /\ k \in 0 .. b - q /\ k \in Nat
  BY <1>10, <1>2, <1>6
<1>13. h \in Seq(Turn) /\ Len(h) = k /\ \A i \in 1 .. k : h[i] = g[i]
  BY <1>10, <1>11, <1>12
<1>14. l = lines \o h
  BY <1>11, Zenon
<1>15. /\ l \in Seq(Turn) /\ Len(l) = m + k /\ \A i \in 1 .. m : l[i] = lines[i]
       /\ \A i \in 1 .. k : l[m + i] = h[i]
  BY <1>1, <1>2, <1>13, <1>14, ConcatIs
<1>16. ASSUME NEW i \in 1 .. k
       PROVE  /\ l[m + i] = batch[q + i] /\ q + i \in 1 .. b /\ m + i \in 1 .. n
              /\ p + (q + i) = m + i
  <2>1. i \in 1 .. b - q
    BY <1>2, <1>6, <1>12
  <2>2. l[m + i] = batch[q + i]
    BY <1>10, <1>13, <1>15, <2>1
  <2>3. m - p <= b
    BY <1>2, <1>5, <2>1
  <2>4. q = m - p
    BY <1>5, <2>3
  <2>5. q + i \in 1 .. b
    BY <1>2, <1>6, <2>1
  <2>6. m + i \in 1 .. n /\ p + (q + i) = m + i
    BY <1>2, <2>4, <2>5
  <2> QED BY <2>2, <2>5, <2>6
<1>17. ASSUME NEW i \in 1 .. Len(l), ~(i <= m)
       PROVE  i - m \in 1 .. k /\ i = m + (i - m)
  BY <1>2, <1>12, <1>15, <1>17
<1>18. ASSUME NEW i \in 1 .. Len(l) PROVE l[i] = Restamped(f[0 + i], l[i].workstream)
  <2>1. 0 + i = i
    OBVIOUS
  <2>2. CASE i <= m
    <3>1. i \in 1 .. m
      BY <2>2
    <3>2. lines[i] = Restamped(f[0 + i], lines[i].workstream)
      BY <1>1, <3>1 DEF Follows
    <3> QED BY <1>15, <3>1, <3>2
  <2>3. CASE ~(i <= m)
    <3>1. PICK j \in 1 .. k : i = m + j
      BY <1>17, <2>3
    <3>2. PICK c : c = q + j
      OBVIOUS
    <3>3. l[i] = batch[c] /\ c \in 1 .. b /\ p + c = i
      BY <1>16, <3>1, <3>2
    <3>4. batch[c] = Restamped(f[p + c], batch[c].workstream)
      BY <1>1, <3>3 DEF Follows
    <3> QED BY <2>1, <3>3, <3>4
  <2> QED BY <2>2, <2>3
<1>19. Follows(l, f, 0)
  <2>1. 0 + Len(l) <= Len(f)
    <3>1. k = 0 \/ k \in 1 .. k
      BY <1>12
    <3> QED BY <1>1, <1>2, <1>15, <1>16, <3>1
  <2> QED BY <1>18, <2>1 DEF Follows
<1>20. k = Len(g) => p + Len(batch) <= Len(l)
  BY <1>1, <1>2, <1>5, <1>10, <1>15
<1>21. ASSUME NEW i \in 1 .. Len(l)
       PROVE  \/ i <= Len(lines) /\ l[i] = lines[i]
              \/ \E j \in 1 .. Len(batch) : l[i] = batch[j]
  <2>1. CASE i <= m
    BY <1>1, <1>15, <2>1
  <2>2. CASE ~(i <= m)
    <3>1. PICK j \in 1 .. k : i = m + j
      BY <1>17, <2>2
    <3> QED BY <1>1, <1>16, <3>1
  <2> QED BY <2>1, <2>2
<1>22. DOMAIN lines = 1 .. m /\ DOMAIN l = 1 .. Len(l) /\ m <= Len(l) /\ DOMAIN batch = 1 .. b
  BY <1>1, <1>2, <1>12, <1>15
<1>23. Items(l) \subseteq Items(lines) \union Items(batch)
  <2>1. ASSUME NEW i \in DOMAIN l PROVE l[i] \in Items(lines) \union Items(batch)
    <3>1. CASE i <= Len(lines) /\ l[i] = lines[i]
      <4>1. i \in DOMAIN lines
        BY <1>1, <1>22, <3>1
      <4> QED BY <3>1, <4>1 DEF Items
    <3>2. CASE \E j \in 1 .. Len(batch) : l[i] = batch[j]
      BY <1>1, <1>22, <3>2 DEF Items
    <3> QED BY <1>21, <1>22, <3>1, <3>2
  <2> QED BY <2>1 DEF Items
<1>24. DOMAIN lines \subseteq DOMAIN l
  BY <1>2, <1>15, <1>12, <1>22
<1> QED BY <1>15, <1>19, <1>20, <1>23, <1>24 DEF FeedMore, Reaches

LEMMA WholeSubSeq ==
  ASSUME NEW X, NEW f \in Seq(X)
  PROVE  SubSeq(f, 1, Len(f)) = f /\ Len(f) \in 0 .. Len(f)
OBVIOUS

(* What an append does to the evidence. *)
EvidenceMore(E, b, l) ==
    l \in Seq(Evidence) /\ Ids(E) \subseteq Ids(l) /\ Items(l) \subseteq Items(E) \union Items(b)

LEMMA EvidenceGrows ==
  ASSUME NEW lines \in Seq(Evidence), NEW batch \in Seq(Evidence),
         NEW g, g = Fresh(Ids(lines), batch, Len(batch)),
         NEW k \in 0 .. Len(g), NEW l, l = lines \o SubSeq(g, 1, k)
  PROVE  EvidenceMore(lines, batch, l) /\ (k = Len(g) => Ids(batch) \subseteq Ids(l))
<1>1. PICK h : h = SubSeq(g, 1, k)
  OBVIOUS
<1>2. g \in Seq(Evidence)
  <2>1. Len(batch) \in 0 .. Len(batch)
    OBVIOUS
  <2> QED BY <2>1, FreshCovers
<1>3. h \in Seq(Evidence) /\ Len(h) = k /\ \A i \in 1 .. k : h[i] = g[i]
  BY <1>1, <1>2
<1>4. l = lines \o h
  BY <1>1, Zenon
<1>5. /\ l \in Seq(Evidence) /\ Ids(l) = Ids(lines) \union Ids(h)
      /\ Items(l) = Items(lines) \union Items(h)
  <2>1. lines \o h \in Seq(Evidence)
    BY <1>3, ConcatIs
  <2>2. Ids(lines \o h) = Ids(lines) \union Ids(h)
    BY <1>3, IdsConcat
  <2>3. Items(lines \o h) = Items(lines) \union Items(h)
    BY <1>3, ItemsConcat
  <2> QED BY <1>4, <2>1, <2>2, <2>3, Zenon
<1>6. Items(h) \subseteq Items(g)
  <2>1. DOMAIN h = 1 .. k /\ DOMAIN g = 1 .. Len(g)
    BY <1>2, <1>3
  <2> QED BY <1>2, <1>3, <2>1 DEF Items
<1>7. Len(batch) \in 0 .. Len(batch) /\ DOMAIN batch = 1 .. Len(batch)
  OBVIOUS
<1>8. Items(g) \subseteq Items(batch) /\ Ids(batch) \subseteq Ids(lines) \union Ids(g)
  <2>1. g = Fresh(Ids(lines), batch, Len(batch))
    OBVIOUS
  <2>2. Items(g) \subseteq Items(batch)
    BY <1>7, <2>1, FreshCovers
  <2>3. \A i \in 1 .. Len(batch) : batch[i].id \in Ids(lines) \union Ids(g)
    BY <1>7, <2>1, FreshCovers
  <2> QED BY <1>7, <2>2, <2>3 DEF Ids
<1>9. k = Len(g) => h = g
  BY <1>1, <1>2, WholeSubSeq
<1> QED BY <1>1, <1>5, <1>6, <1>8, <1>9 DEF EvidenceMore

LEMMA FollowsMore ==
  ASSUME NEW f \in Seq(Turn), NEW h \in Seq(Turn), NEW lines \in Seq(Turn), NEW p \in Nat,
         Follows(lines, f, p)
  PROVE  Follows(lines, f \o h, p)
<1>1. PICK g : g = f \o h
  OBVIOUS
<1>2. g \in Seq(Turn) /\ Len(g) = Len(f) + Len(h) /\ \A i \in 1 .. Len(f) : g[i] = f[i]
  BY <1>1, ConcatIs
<1>3. \A i \in 1 .. Len(lines) : p + i \in 1 .. Len(f)
  BY DEF Follows
<1>4. p + Len(lines) <= Len(g)
  BY <1>2 DEF Follows
<1>5. Follows(lines, g, p)
  BY <1>2, <1>3, <1>4 DEF Follows
<1> QED BY <1>1, <1>5

(* The turns read since a checkpoint, stamped. *)
LEMMA BatchFollows ==
  ASSUME NEW a \in Seq(Turn), NEW b \in Seq(Turn), NEW log \in Seq(Membership)
  PROVE  Follows(StampTurns(b, log), a \o b, Len(a))
<1>1. PICK f, s : f = a \o b /\ s = StampTurns(b, log)
  OBVIOUS
<1>2. f \in Seq(Turn) /\ Len(f) = Len(a) + Len(b) /\ \A i \in 1 .. Len(b) : f[Len(a) + i] = b[i]
  BY <1>1, ConcatIs
<1>3. /\ Len(s) = Len(b)
      /\ \A i \in 1 .. Len(b) : s[i] = Restamped(b[i], MembershipAt(log, b[i].started))
  BY <1>1, StampTurnsIs
<1>4. ASSUME NEW i \in 1 .. Len(s) PROVE s[i] = Restamped(f[Len(a) + i], s[i].workstream)
  <2>1. PICK x, w : x = b[i] /\ w = MembershipAt(log, b[i].started)
    OBVIOUS
  <2>2. x \in Turn /\ s[i] = Restamped(x, w) /\ f[Len(a) + i] = x
    BY <1>2, <1>3, <2>1
  <2>3. s[i].workstream = w
    BY <2>2, RestampedIs
  <2> QED BY <2>2, <2>3
<1>5. Follows(s, f, Len(a))
  BY <1>2, <1>3, <1>4 DEF Follows
<1> QED BY <1>1, <1>5


-----------------------------------------------------------------------------
(* The invariant, in parts about one rollout tr: S is what it holds, d its
   saved state, u its run; m is the membership log, t the time, E the lines of
   the evidence file and L those of the feed. *)

Phases == {"idle", "begun", "read", "stamped", "evidenced", "published"}
HasRead == {"read", "stamped", "evidenced", "published"}
HasStamped == {"stamped", "evidenced", "published"}

Saved == [inode : Nat, offset : Nat, normalizer : Normalizer]

Run == [phase : Phases, reset : BOOLEAN, inode : Nat, resume : BOOLEAN,
        offset : Nat, normalizer : Normalizer, log : Seq(Membership)]

Prefix(a, b) == Len(a) <= Len(b) /\ \A i \in 1 .. Len(a) : a[i] = b[i]

(* Turns are numbered from 1 in the order in which they start. *)
NumberedTo(S, c) == \A x \in Nat : (\E i \in DOMAIN S : IsStart(S, i, x)) <=> x \in 1 .. c

Numbered(S) == \E c \in 0 .. Len(S) : NumberedTo(S, c)

Written(S, limit, t) ==
    /\ Ordered(S) /\ Numbered(S) /\ Len(S) <= limit
    /\ \A j \in DOMAIN S : S[j].native <= S[j].at /\ S[j].at < t

Increasing(m) == \A i, j \in 1 .. Len(m) : i < j => m[i].from < m[j].from

(* A membership made by the prompt of a turn counts from that turn's start,
   unless the one before it counts from then or later. *)
Moved(m, S, t) ==
    /\ m \in Seq(Membership) /\ Increasing(m)
    /\ \A i \in 1 .. Len(m) : m[i].from <= m[i].made /\ m[i].made < t
    /\ \A i \in 1 .. Len(m) : m[i].turn # NoTurn =>
          \E p \in DOMAIN S :
              /\ IsStart(S, p, m[i].turn)
              /\ (i > 1 => m[i - 1].from < S[p].native) => m[i].from = S[p].native

SavedOk(tr, S, d, ino) ==
    /\ d.inode \in 0 .. ino /\ d.offset \in 0 .. Len(S)
    /\ d.inode # 0 => d.normalizer = Snapshot(Read(tr, S, d.offset))

Base(d, u) == IF u.resume THEN d.offset ELSE 0

(* The run holds what a replay has beyond the checkpoint it started from. *)
RunOk(tr, S, d, u, ino) ==
    /\ u.phase # "idle" => u.inode \in 1 .. ino /\ (u.resume => d.inode # 0)
    /\ u.phase \in HasRead =>
          /\ u.offset \in Base(d, u) .. Len(S)
          /\ Resumes(Read(tr, S, Base(d, u)), u.normalizer, Read(tr, S, u.offset))

(* The first k lines were read before any membership but the first l was made. *)
Before(S, k, m, l) == \A i \in l + 1 .. Len(m), j \in 1 .. k : S[j].at < m[i].made

Logged(S, u, m) ==
    /\ Prefix(u.log, m)
    /\ u.phase \in HasStamped => Before(S, u.offset, m, Len(u.log))

(* The evidence of the first k lines is published. *)
Backed(tr, S, k, E) == \A x \in Routed(tr, Read(tr, S, k)) : x.id \in Ids(E)

EvidenceOut(tr, S, d, u, E) ==
    /\ Backed(tr, S, d.offset, E)
    /\ u.phase \in {"evidenced", "published"} => Backed(tr, S, u.offset, E)

(* The turns of the first k lines of the root are published. *)
Out(S, k, L) == DOMAIN Read(Root, S, k).outTurns \subseteq DOMAIN L

FeedOut(S, d, u, L) ==
    /\ Out(S, d.offset, L)
    /\ u.phase = "published" => Out(S, u.offset, L)

(* A record of time t and workstream w was stamped when the log was log. *)
StampedBy(w, t, m, log) ==
    /\ log \in Seq(Membership) /\ Prefix(log, m) /\ w = MembershipAt(log, t)
    /\ \A i \in Len(log) + 1 .. Len(m) : t < m[i].made

(* Turn t ended in S before the time v. *)
EndedIn(S, t, v) == \E l \in DOMAIN S : IsEnd(S, l, t) /\ S[l].at < v

(* The memberships that a turn's own prompt made and its stamp did not know
   were made after its end. *)
TurnStamped(x, m, S) ==
    \E log : /\ StampedBy(x.workstream, x.started, m, log)
             /\ \A i \in Len(log) + 1 .. Len(m) :
                   x.id = <<Root, m[i].turn>> => EndedIn(S, m[i].turn, m[i].made)

EvidenceStamped(e, m) == \E log : StampedBy(e.workstream, e.at, m, log)

FeedOk(S, m, L, E) ==
    /\ L \in Seq(Turn) /\ Follows(L, Read(Root, S, Len(S)).outTurns, 0)
    /\ \A x \in Items(L) : x.refs \subseteq Ids(E) /\ TurnStamped(x, m, S)

(* Evidence comes from a rollout. *)
From(tr, S, e) ==
    \E x \in Routed(tr, Read(tr, S, Len(S))) : e = Restamped(x, e.workstream)

Rollout(tr, S, limit, t, ino, d, u, m, E) ==
    /\ Written(S, limit, t) /\ SavedOk(tr, S, d, ino) /\ RunOk(tr, S, d, u, ino)
    /\ Logged(S, u, m) /\ EvidenceOut(tr, S, d, u, E)

Shape ==
    /\ scene \in Scenes /\ ~scene.reopens /\ now \in Nat /\ faults \in 0 .. scene.faults
    /\ trace \in [Traces -> Seq(Record)] /\ inode \in [Traces -> Nat]
    /\ \A tr \in Traces : inode[tr] \in 1 .. 1 + faults
    /\ saved \in [Traces -> Saved] /\ run \in [Traces -> Run]
    /\ evidence \in Files(Evidence) /\ feed \in Files(Turn)

EvidenceOk ==
    \A e \in Items(evidence.lines) :
        EvidenceStamped(e, memberships) /\ \E tr \in Traces : From(tr, trace[tr], e)

Inv ==
    /\ Shape
    /\ Moved(memberships, trace[Root], now)
    /\ \A tr \in Traces : Rollout(tr, trace[tr], scene.records[tr], now, inode[tr],
                                  saved[tr], run[tr], memberships, evidence.lines)
    /\ FeedOut(trace[Root], saved[Root], run[Root], feed.lines)
    /\ FeedOk(trace[Root], memberships, feed.lines, evidence.lines)
    /\ EvidenceOk


(* Codex writes: what was true of the lines there were stays true. *)
LEMMA ReadSame ==
  ASSUME NEW tr, NEW S, Ordered(S), NEW Q, Prefix(S, Q), NEW k \in 0 .. Len(S)
  PROVE  Read(tr, Q, k) = Read(tr, S, k)
<1>1. 1 \in Nat \ {0} /\ k \in Nat /\ \A i \in 1 .. k : S[i] = Q[i]
  BY DEF Ordered, Prefix
<1> QED BY <1>1, ReadAgrees DEF Read

LEMMA NormalizerType ==
  ASSUME NEW tr \in Traces, NEW S, Ordered(S), NEW k \in 0 .. Len(S)
  PROVE  /\ Read(tr, S, k) \in Normalizer /\ Read(tr, S, k).outTurns \in Seq(Turn)
         /\ Read(tr, S, k).outEvidence \in Seq(Evidence)
BY ReplayKnown DEF Knows, Normalizer

LEMMA SavedLater ==
  ASSUME NEW tr \in Traces, NEW S, Ordered(S), NEW Q, Ordered(Q), Prefix(S, Q),
         NEW d, NEW ino, SavedOk(tr, S, d, ino)
  PROVE  SavedOk(tr, Q, d, ino)
<1>1. Len(S) \in Nat /\ Len(Q) \in Nat /\ Len(S) <= Len(Q)
  BY DEF Ordered, Prefix
<1>2. d.offset \in 0 .. Len(S) /\ d.offset \in 0 .. Len(Q)
  BY <1>1 DEF SavedOk
<1>3. Read(tr, Q, d.offset) = Read(tr, S, d.offset)
  BY <1>2, ReadSame
<1> QED BY <1>2, <1>3 DEF SavedOk

LEMMA BaseIs ==
  ASSUME NEW tr, NEW S, Ordered(S), NEW d, NEW u, NEW ino, SavedOk(tr, S, d, ino)
  PROVE  Base(d, u) \in 0 .. Len(S)
<1>1. Len(S) \in Nat
  BY DEF Ordered
<1> QED BY <1>1 DEF SavedOk, Base

LEMMA RunLater ==
  ASSUME NEW tr \in Traces, NEW S, Ordered(S), NEW Q, Ordered(Q), Prefix(S, Q),
         NEW d, NEW u, NEW ino, SavedOk(tr, S, d, ino), RunOk(tr, S, d, u, ino)
  PROVE  RunOk(tr, Q, d, u, ino)
<1>1. Len(S) \in Nat /\ Len(Q) \in Nat /\ Len(S) <= Len(Q)
  BY DEF Ordered, Prefix
<1>2. SUFFICES ASSUME u.phase \in HasRead
               PROVE  /\ u.offset \in Base(d, u) .. Len(Q)
                      /\ Resumes(Read(tr, Q, Base(d, u)), u.normalizer, Read(tr, Q, u.offset))
  BY DEF RunOk
<1>3. Base(d, u) \in 0 .. Len(S)
  BY BaseIs
<1>4. u.offset \in Base(d, u) .. Len(S) /\ u.offset \in 0 .. Len(S)
  BY <1>1, <1>2, <1>3 DEF RunOk
<1>5. /\ Read(tr, Q, Base(d, u)) = Read(tr, S, Base(d, u))
      /\ Read(tr, Q, u.offset) = Read(tr, S, u.offset)
  BY <1>3, <1>4, ReadSame
<1>6. Resumes(Read(tr, S, Base(d, u)), u.normalizer, Read(tr, S, u.offset))
  BY <1>2 DEF RunOk
<1> QED BY <1>1, <1>3, <1>4, <1>5, <1>6

LEMMA OffsetIs ==
  ASSUME NEW tr, NEW S, Ordered(S), NEW d, NEW u, NEW ino, SavedOk(tr, S, d, ino),
         RunOk(tr, S, d, u, ino), u.phase \in HasRead
  PROVE  u.offset \in Base(d, u) .. Len(S) /\ u.offset \in 0 .. Len(S)
<1>1. Len(S) \in Nat
  BY DEF Ordered
<1>2. Base(d, u) \in 0 .. Len(S)
  BY BaseIs
<1> QED BY <1>1, <1>2 DEF RunOk

LEMMA LoggedLater ==
  ASSUME NEW tr \in Traces, NEW S, Ordered(S), NEW Q, Prefix(S, Q), NEW d, NEW u, NEW ino,
         SavedOk(tr, S, d, ino), RunOk(tr, S, d, u, ino), NEW m, Logged(S, u, m)
  PROVE  Logged(Q, u, m)
<1>1. SUFFICES ASSUME u.phase \in HasStamped PROVE Before(Q, u.offset, m, Len(u.log))
  BY DEF Logged
<1>2. u.offset \in 0 .. Len(S)
  BY <1>1, OffsetIs DEF HasStamped, HasRead
<1>3. \A j \in 1 .. u.offset : Q[j] = S[j]
  BY <1>2 DEF Prefix, Ordered
<1> QED BY <1>1, <1>3 DEF Logged, Before

LEMMA OutLater ==
  ASSUME NEW tr \in Traces, NEW S, Ordered(S), NEW Q, Prefix(S, Q), NEW d, NEW u, NEW ino,
         SavedOk(tr, S, d, ino), RunOk(tr, S, d, u, ino)
  PROVE  /\ \A E : EvidenceOut(tr, S, d, u, E) => EvidenceOut(tr, Q, d, u, E)
         /\ tr = Root => \A L : FeedOut(S, d, u, L) => FeedOut(Q, d, u, L)
<1>1. Read(tr, Q, d.offset) = Read(tr, S, d.offset)
  <2>1. d.offset \in 0 .. Len(S)
    BY DEF SavedOk
  <2> QED BY <2>1, ReadSame
<1>2. u.phase \in {"evidenced", "published"} => Read(tr, Q, u.offset) = Read(tr, S, u.offset)
  <2>1. SUFFICES ASSUME u.phase \in {"evidenced", "published"}
                 PROVE  Read(tr, Q, u.offset) = Read(tr, S, u.offset)
    OBVIOUS
  <2>2. u.offset \in 0 .. Len(S)
    BY <2>1, OffsetIs DEF HasRead
  <2> QED BY <2>2, ReadSame
<1>3. \A E : EvidenceOut(tr, S, d, u, E) => EvidenceOut(tr, Q, d, u, E)
  BY <1>1, <1>2 DEF EvidenceOut, Backed
<1>4. tr = Root => \A L : FeedOut(S, d, u, L) => FeedOut(Q, d, u, L)
  BY <1>1, <1>2 DEF FeedOut, Out
<1> QED BY <1>3, <1>4

LEMMA RolloutLater ==
  ASSUME NEW tr \in Traces, NEW S, NEW Q, Prefix(S, Q), NEW limit, NEW t, NEW t2,
         NEW ino, NEW d, NEW u, NEW m, NEW E, Rollout(tr, S, limit, t, ino, d, u, m, E),
         Written(Q, limit, t2)
  PROVE  Rollout(tr, Q, limit, t2, ino, d, u, m, E)
<1>1. Ordered(S) /\ Ordered(Q)
  BY DEF Rollout, Written
<1>2. SavedOk(tr, S, d, ino) /\ RunOk(tr, S, d, u, ino) /\ Logged(S, u, m)
      /\ EvidenceOut(tr, S, d, u, E)
  BY DEF Rollout
<1>3. SavedOk(tr, Q, d, ino)
  BY <1>1, <1>2, SavedLater
<1>4. RunOk(tr, Q, d, u, ino)
  BY <1>1, <1>2, RunLater
<1>5. Logged(Q, u, m)
  BY <1>1, <1>2, LoggedLater
<1>6. EvidenceOut(tr, Q, d, u, E)
  BY <1>1, <1>2, OutLater
<1> QED BY <1>3, <1>4, <1>5, <1>6 DEF Rollout

Extends(g, f) == \E h \in Seq(Turn) : g = f \o h

LEMMA TurnsGrow ==
  ASSUME NEW tr \in Traces, NEW S, Ordered(S), NEW b \in 0 .. Len(S), NEW k \in b .. Len(S)
  PROVE  Extends(Read(tr, S, k).outTurns, Read(tr, S, b).outTurns)
<1>1. PICK M \in Normalizer : Resumes(Read(tr, S, b), M, Read(tr, S, k))
  BY ReadMore
<1>2. M.outTurns \in Seq(Turn)
  BY DEF Normalizer
<1>3. Read(tr, S, k).outTurns = Read(tr, S, b).outTurns \o M.outTurns
  BY <1>1, Zenon DEF Resumes
<1> QED BY <1>2, <1>3, Zenon DEF Extends

LEMMA FeedLater ==
  ASSUME NEW S, Ordered(S), NEW Q, Ordered(Q), Prefix(S, Q), NEW m, NEW L, NEW E,
         FeedOk(S, m, L, E)
  PROVE  FeedOk(Q, m, L, E)
<1>1. Len(S) \in 0 .. Len(S) /\ Len(S) \in 0 .. Len(Q) /\ Len(Q) \in Len(S) .. Len(Q)
      /\ Len(Q) \in 0 .. Len(Q)
  BY DEF Ordered, Prefix
<1>2. Root \in Traces
  BY DEF Traces
<1>3. Read(Root, Q, Len(S)) = Read(Root, S, Len(S))
  BY <1>1, ReadSame
<1>4. Extends(Read(Root, Q, Len(Q)).outTurns, Read(Root, Q, Len(S)).outTurns)
  BY <1>1, <1>2, TurnsGrow
<1>5. PICK f, g : f = Read(Root, S, Len(S)).outTurns /\ g = Read(Root, Q, Len(Q)).outTurns
  OBVIOUS
<1>6. f \in Seq(Turn) /\ Extends(g, f)
  BY <1>1, <1>2, <1>3, <1>4, <1>5, NormalizerType
<1>7. L \in Seq(Turn) /\ Follows(L, f, 0) /\ 0 \in Nat
  BY <1>5 DEF FeedOk
<1>8. PICK h \in Seq(Turn) : g = f \o h
  BY <1>6 DEF Extends
<1>9. Follows(L, f \o h, 0)
  BY <1>6, <1>7, FollowsMore
<1>10. Follows(L, Read(Root, Q, Len(Q)).outTurns, 0)
  BY <1>5, <1>8, <1>9, Zenon
<1>11. ASSUME NEW x \in Items(L) PROVE TurnStamped(x, m, Q)
  <2>1. PICK log : /\ StampedBy(x.workstream, x.started, m, log)
                   /\ \A i \in Len(log) + 1 .. Len(m) :
                         x.id = <<Root, m[i].turn>> => EndedIn(S, m[i].turn, m[i].made)
    BY DEF FeedOk, TurnStamped
  <2>2. \A t, v : EndedIn(S, t, v) => EndedIn(Q, t, v)
    <3>1. \A l \in DOMAIN S : l \in DOMAIN Q /\ Q[l] = S[l]
      BY DEF Ordered, Prefix
    <3> QED BY <3>1 DEF EndedIn, IsEnd
  <2> QED BY <2>1, <2>2, Zenon DEF TurnStamped
<1> QED BY <1>7, <1>10, <1>11 DEF FeedOk

LEMMA FromLater ==
  ASSUME NEW tr \in Traces, NEW S, Ordered(S), NEW Q, Ordered(Q), Prefix(S, Q),
         NEW e, From(tr, S, e)
  PROVE  From(tr, Q, e)
<1>1. Len(S) \in 0 .. Len(S) /\ Len(S) \in 0 .. Len(Q) /\ Len(Q) \in Len(S) .. Len(Q)
  BY DEF Ordered, Prefix
<1>2. Read(tr, Q, Len(S)) = Read(tr, S, Len(S))
  BY <1>1, ReadSame
<1>3. Routed(tr, Read(tr, Q, Len(S))) \subseteq Routed(tr, Read(tr, Q, Len(Q)))
  BY <1>1, RoutedGrows
<1> QED BY <1>2, <1>3 DEF From

LEMMA MovedLater ==
  ASSUME NEW S, Ordered(S), NEW Q, Ordered(Q), Prefix(S, Q), NEW m, NEW t \in Nat,
         NEW t2 \in Nat, t <= t2, Moved(m, S, t)
  PROVE  Moved(m, Q, t2)
<1>1. /\ m \in Seq(Membership) /\ Increasing(m)
      /\ \A i \in 1 .. Len(m) : m[i].from <= m[i].made /\ m[i].made < t
  BY DEF Moved
<1>2. \A i \in 1 .. Len(m) : m[i].made < t2
  <2>1. ASSUME NEW i \in 1 .. Len(m) PROVE m[i].made \in Nat
    <3>1. m[i] \in Membership
      BY <1>1
    <3> QED BY <3>1 DEF Membership
  <2> QED BY <1>1, <2>1
<1>3. ASSUME NEW p \in DOMAIN S PROVE p \in DOMAIN Q /\ Q[p] = S[p]
  BY DEF Ordered, Prefix
<1>4. ASSUME NEW i \in 1 .. Len(m), m[i].turn # NoTurn
      PROVE  \E p \in DOMAIN Q :
                /\ IsStart(Q, p, m[i].turn)
                /\ (i > 1 => m[i - 1].from < Q[p].native) => m[i].from = Q[p].native
  <2>1. PICK p \in DOMAIN S :
                /\ IsStart(S, p, m[i].turn)
                /\ (i > 1 => m[i - 1].from < S[p].native) => m[i].from = S[p].native
    BY <1>4 DEF Moved
  <2> QED BY <1>3, <2>1 DEF IsStart
<1> QED BY <1>1, <1>2, <1>4 DEF Moved


LEMMA AppendIs ==
  ASSUME NEW S \in Seq(Record), NEW r \in Record, NEW Q, Q = Append(S, r)
  PROVE  /\ Q \in Seq(Record) /\ Len(Q) = Len(S) + 1 /\ Len(S) \in Nat /\ Q[Len(Q)] = r
         /\ Prefix(S, Q) /\ DOMAIN S = 1 .. Len(S) /\ DOMAIN Q = 1 .. Len(Q)
         /\ \A i \in 1 .. Len(S) : Q[i] = S[i]
BY DEF Prefix

(* A legal line of a rollout. *)
Legal(S, r) ==
    /\ r.turn = NoTurn <=> r.kind = "usage"
    /\ r.kind = "started" =>
          \E c \in 0 .. Len(S) : NumberedTo(S, c) /\ r.turn = c + 1
    /\ r.kind = "ended" =>
          \E i \in 1 .. Len(S) : Open(S, i, Len(S) + 1) /\ S[i].turn = r.turn

LEMMA OrderedMore ==
  ASSUME NEW S, Ordered(S), NEW r \in Record, Legal(S, r), NEW Q, Q = Append(S, r)
  PROVE  Ordered(Q)
<1>1. PICK n \in Nat : n = Len(S)
  BY DEF Ordered
<1>2. /\ Q \in Seq(Record) /\ Len(Q) = n + 1 /\ Q[n + 1] = r
      /\ DOMAIN S = 1 .. n /\ DOMAIN Q = 1 .. n + 1 /\ \A i \in 1 .. n : Q[i] = S[i]
  BY <1>1, AppendIs DEF Ordered
<1>3. ASSUME NEW j \in DOMAIN Q PROVE (j \in 1 .. n /\ Q[j] = S[j]) \/ (j = n + 1 /\ Q[j] = r)
  <2>1. j \in 1 .. n \/ j = n + 1
    BY <1>2
  <2> QED BY <1>2, <2>1
<1>4. ASSUME NEW j \in DOMAIN Q PROVE Q[j].turn = NoTurn <=> Q[j].kind = "usage"
  BY <1>2, <1>3 DEF Ordered, Legal
<1>5. ASSUME NEW j \in DOMAIN Q, NEW i \in 1 .. j - 1,
             Q[i].kind = "started", Q[j].kind = "started"
      PROVE  Q[i].turn # Q[j].turn
  <2>1. i \in 1 .. n /\ Q[i] = S[i] /\ i \in DOMAIN S
    BY <1>2
  <2>2. CASE j \in 1 .. n /\ Q[j] = S[j]
    BY <1>2, <1>5, <2>1, <2>2 DEF Ordered
  <2>3. CASE j = n + 1 /\ Q[j] = r
    <3>1. PICK c \in 0 .. n : NumberedTo(S, c) /\ r.turn = c + 1
      BY <1>1, <1>5, <2>3 DEF Legal
    <3>2. S[i].turn # NoTurn /\ S[i] \in Record
      BY <1>5, <2>1 DEF Ordered
    <3>3. S[i].turn \in Nat /\ IsStart(S, i, S[i].turn)
      BY <1>5, <2>1, <3>2 DEF Record, IsStart
    <3>4. S[i].turn \in 1 .. c
      BY <2>1, <3>1, <3>3 DEF NumberedTo
    <3> QED BY <2>1, <2>3, <3>1, <3>4
  <2> QED BY <1>3, <2>2, <2>3
<1>6. ASSUME NEW j \in DOMAIN Q, Q[j].kind = "ended"
      PROVE  \E i \in 1 .. j - 1 : Open(Q, i, j) /\ Q[i].turn = Q[j].turn
  <2>1. PICK i \in 1 .. j - 1 : Open(S, i, j) /\ S[i].turn = Q[j].turn
    <3>1. CASE j \in 1 .. n /\ Q[j] = S[j]
      BY <1>2, <1>6, <3>1 DEF Ordered
    <3>2. CASE j = n + 1 /\ Q[j] = r
      <4>1. PICK i \in 1 .. n : Open(S, i, n + 1) /\ S[i].turn = r.turn
        BY <1>1, <1>6, <3>2 DEF Legal
      <4> QED BY <3>2, <4>1
    <3> QED BY <1>3, <3>1, <3>2
  <2>2. \A l \in 1 .. j - 1 : Q[l] = S[l]
    BY <1>2
  <2> QED BY <2>1, <2>2 DEF Open
<1> QED BY <1>2, <1>4, <1>5, <1>6 DEF Ordered

LEMMA NumberedMore ==
  ASSUME NEW S, Ordered(S), Numbered(S), NEW r \in Record, Legal(S, r), NEW Q, Q = Append(S, r)
  PROVE  Numbered(Q)
<1>1. PICK n \in Nat : n = Len(S)
  BY DEF Ordered
<1>2. /\ Q \in Seq(Record) /\ Len(Q) = n + 1 /\ Q[n + 1] = r
      /\ DOMAIN S = 1 .. n /\ DOMAIN Q = 1 .. n + 1 /\ \A i \in 1 .. n : Q[i] = S[i]
  BY <1>1, AppendIs DEF Ordered
<1>3. ASSUME NEW x
      PROVE  (\E i \in DOMAIN Q : IsStart(Q, i, x)) <=>
                (\E i \in DOMAIN S : IsStart(S, i, x)) \/ (r.kind = "started" /\ r.turn = x)
  <2>1. ASSUME NEW i \in DOMAIN Q, IsStart(Q, i, x)
        PROVE  (\E h \in DOMAIN S : IsStart(S, h, x)) \/ (r.kind = "started" /\ r.turn = x)
    <3>1. i \in 1 .. n \/ i = n + 1
      BY <1>2
    <3> QED BY <1>2, <2>1, <3>1 DEF IsStart
  <2>2. ASSUME NEW i \in DOMAIN S, IsStart(S, i, x) PROVE i \in DOMAIN Q /\ IsStart(Q, i, x)
    BY <1>2, <2>2 DEF IsStart
  <2>3. r.kind = "started" /\ r.turn = x => n + 1 \in DOMAIN Q /\ IsStart(Q, n + 1, x)
    BY <1>2 DEF IsStart
  <2> QED BY <2>1, <2>2, <2>3
<1>4. CASE r.kind = "started"
  <2>1. PICK c \in 0 .. n : NumberedTo(S, c) /\ r.turn = c + 1
    BY <1>1, <1>4 DEF Legal
  <2>2. c + 1 \in 0 .. n + 1 /\ \A x \in Nat : x \in 1 .. c + 1 <=> x \in 1 .. c \/ x = c + 1
    BY <1>1
  <2>3. NumberedTo(Q, c + 1)
    BY <1>3, <1>4, <2>1, <2>2 DEF NumberedTo
  <2> QED BY <1>2, <2>2, <2>3 DEF Numbered
<1>5. CASE r.kind # "started"
  <2>1. PICK c \in 0 .. n : NumberedTo(S, c)
    BY <1>1 DEF Numbered
  <2>2. NumberedTo(Q, c) /\ c \in 0 .. n + 1
    BY <1>1, <1>3, <1>5, <2>1 DEF NumberedTo
  <2> QED BY <1>2, <2>2 DEF Numbered
<1> QED BY <1>4, <1>5

LEMMA WrittenMore ==
  ASSUME NEW S, NEW limit \in Nat, NEW t \in Nat, Written(S, limit, t), Len(S) < limit,
         NEW r \in Record, Legal(S, r), r.at = t, r.native <= t, NEW Q, Q = Append(S, r)
  PROVE  Written(Q, limit, t + 1)
<1>1. Ordered(S) /\ Numbered(S)
  BY DEF Written
<1>2. Ordered(Q) /\ Numbered(Q)
  BY <1>1, OrderedMore, NumberedMore
<1>3. PICK n \in Nat : n = Len(S)
  BY <1>1 DEF Ordered
<1>4. /\ Len(Q) = n + 1 /\ Q[n + 1] = r
      /\ DOMAIN S = 1 .. n /\ DOMAIN Q = 1 .. n + 1 /\ \A i \in 1 .. n : Q[i] = S[i]
  BY <1>1, <1>3, AppendIs DEF Ordered
<1>5. Len(Q) <= limit
  BY <1>3, <1>4
<1>6. ASSUME NEW j \in DOMAIN Q PROVE Q[j].native <= Q[j].at /\ Q[j].at < t + 1
  <2>1. CASE j \in 1 .. n
    <3>1. S[j].native <= S[j].at /\ S[j].at < t /\ S[j] \in Record
      BY <1>1, <1>4, <2>1 DEF Written, Ordered
    <3>2. S[j].at \in Nat
      BY <3>1 DEF Record
    <3>3. PICK a : a = S[j].at
      OBVIOUS
    <3>4. a \in Nat /\ a < t
      BY <3>1, <3>2, <3>3
    <3>5. a < t + 1
      BY <3>4
    <3> QED BY <1>4, <2>1, <3>1, <3>3, <3>5
  <2>2. CASE j = n + 1
    <3>1. t < t + 1
      OBVIOUS
    <3> QED BY <1>4, <2>2, <3>1
  <2>3. j \in 1 .. n \/ j = n + 1
    BY <1>4
  <2> QED BY <2>1, <2>2, <2>3
<1> QED BY <1>2, <1>5, <1>6 DEF Written


-----------------------------------------------------------------------------
(* The steps of Codex *)

LEMMA SceneIs ==
  ASSUME Shape
  PROVE  /\ scene.second \in Nat \ {0} /\ scene.faults \in Nat /\ scene.moves \in Nat
         /\ \A tr \in Traces : scene.records[tr] \in Nat
         /\ Root \in Traces /\ NoTurn \notin Nat /\ Unscoped \notin Workstreams
<1>1. scene \in [second : Nat \ {0}, reopens : BOOLEAN, records : [Traces -> Nat],
                 moves : Nat, faults : Nat]
  BY IngestAssumption DEF Shape
<1> HIDE DEF Traces
<1>2. Root \in Traces
  BY DEF Traces
<1>3. scene.records \in [Traces -> Nat]
  BY <1>1
<1> QED BY <1>1, <1>2, <1>3, IngestAssumption

LEMMA Floor ==
  ASSUME Shape
  PROVE  FloorSecond(now) \in Nat /\ FloorSecond(now) <= now
<1>1. PICK t, s : t = now /\ s = scene.second
  OBVIOUS
<1>2. t \in Nat /\ s \in Nat \ {0}
  BY <1>1, SceneIs DEF Shape
<1>3. t % s \in 0 .. s - 1 /\ t - (t % s) \in Nat
  BY <1>2
<1>4. t - (t % s) <= t
  BY <1>2, <1>3
<1> QED BY <1>1, <1>3, <1>4 DEF FloorSecond

LEMMA Parts ==
  ASSUME Inv, NEW tr \in Traces
  PROVE  /\ Rollout(tr, trace[tr], scene.records[tr], now, inode[tr],
                    saved[tr], run[tr], memberships, evidence.lines)
         /\ Written(trace[tr], scene.records[tr], now) /\ Ordered(trace[tr])
         /\ SavedOk(tr, trace[tr], saved[tr], inode[tr])
         /\ RunOk(tr, trace[tr], saved[tr], run[tr], inode[tr])
         /\ Logged(trace[tr], run[tr], memberships)
         /\ EvidenceOut(tr, trace[tr], saved[tr], run[tr], evidence.lines)
         /\ trace[tr] \in Seq(Record) /\ inode[tr] \in Nat
         /\ saved[tr] \in Saved /\ run[tr] \in Run
<1>1. Rollout(tr, trace[tr], scene.records[tr], now, inode[tr],
              saved[tr], run[tr], memberships, evidence.lines)
  BY DEF Inv
<1>2. Shape
  BY DEF Inv
<1> HIDE DEF Traces
<1> QED BY <1>1, <1>2 DEF Rollout, Written, Shape

LEMMA Writes ==
  ASSUME Inv, NEW tr \in Traces, NEW kind \in {"started", "usage", "ended"},
         NEW x \in Nat \union {NoTurn}, WriteRecord(tr, kind, x),
         NEW r, r = [kind |-> kind, turn |-> x, at |-> now, native |-> FloorSecond(now)],
         Legal(trace[tr], r)
  PROVE  Inv'
<1>1. Shape
  BY DEF Inv
<1>2. PICK S, limit, t : S = trace[tr] /\ limit = scene.records[tr] /\ t = now
  OBVIOUS
<1>3. Written(S, limit, t) /\ Ordered(S) /\ S \in Seq(Record) /\ limit \in Nat /\ t \in Nat
  BY <1>1, <1>2, Parts, SceneIs DEF Shape
<1>4. r \in Record /\ r.at = t /\ r.native <= t
  BY <1>1, <1>2, <1>3, Floor DEF Record
<1>5. PICK Q : Q = Append(S, r)
  OBVIOUS
<1>6. /\ Len(S) < limit /\ trace' = [trace EXCEPT ![tr] = Q] /\ now' = t + 1
      /\ UNCHANGED <<scene, inode, memberships, run, saved, evidence, feed, faults>>
  BY <1>2, <1>5 DEF WriteRecord, files
<1>7. Written(Q, limit, t + 1) /\ Ordered(Q) /\ Prefix(S, Q) /\ Q \in Seq(Record)
  <2>1. Written(Q, limit, t + 1)
    BY <1>2, <1>3, <1>4, <1>5, <1>6, WrittenMore
  <2>2. Prefix(S, Q)
    BY <1>3, <1>4, <1>5, AppendIs
  <2> QED BY <2>1, <2>2 DEF Written, Ordered
<1>8. t + 1 \in Nat /\ t <= t + 1
  BY <1>3
<1> HIDE DEF Traces
<1>9. PICK T : T = trace'
  OBVIOUS
<1>10. /\ T[tr] = Q /\ T \in [Traces -> Seq(Record)]
       /\ \A y \in Traces : y # tr => T[y] = trace[y]
  BY <1>1, <1>6, <1>7, <1>9 DEF Shape
<1>11. ASSUME NEW y \in Traces
       PROVE  /\ Prefix(trace[y], T[y]) /\ Ordered(trace[y])
              /\ Written(T[y], scene.records[y], t + 1) /\ Ordered(T[y])
  <2>1. CASE y = tr
    BY <1>2, <1>3, <1>7, <1>10, <2>1
  <2>2. CASE y # tr
    <3>1. PICK R : R = trace[y]
      OBVIOUS
    <3>2. Written(R, scene.records[y], t) /\ Ordered(R) /\ R \in Seq(Record)
      BY <1>2, <3>1, Parts
    <3>3. \A j \in DOMAIN R : R[j].at < t + 1
      <4>1. SUFFICES ASSUME NEW j \in DOMAIN R PROVE R[j].at < t + 1
        OBVIOUS
      <4>2. PICK a : a = R[j].at
        OBVIOUS
      <4>3. R[j] \in Record
        BY <3>2
      <4>4. a \in Nat /\ a < t
        BY <3>2, <4>2, <4>3 DEF Written, Record
      <4> QED BY <1>3, <4>2, <4>4
    <3>4. Written(R, scene.records[y], t + 1)
      BY <3>2, <3>3 DEF Written
    <3>5. Prefix(R, R)
      BY <3>2 DEF Prefix
    <3>6. T[y] = R
      BY <1>10, <2>2, <3>1
    <3> QED BY <3>1, <3>2, <3>4, <3>5, <3>6
  <2> QED BY <2>1, <2>2
<1>12. ASSUME NEW y \in Traces
       PROVE  Rollout(y, T[y], scene.records[y], t + 1, inode[y],
                      saved[y], run[y], memberships, evidence.lines)
  <2>1. Rollout(y, trace[y], scene.records[y], now, inode[y],
                saved[y], run[y], memberships, evidence.lines)
    BY Parts
  <2> QED BY <1>11, <2>1, RolloutLater
<1>13. Root \in Traces
  BY DEF Traces
<1>14. Moved(memberships, T[Root], t + 1)
  BY <1>2, <1>3, <1>8, <1>11, <1>13, MovedLater DEF Inv
<1>15. FeedOut(T[Root], saved[Root], run[Root], feed.lines)
  BY <1>11, <1>13, Parts, OutLater DEF Inv
<1>16. FeedOk(T[Root], memberships, feed.lines, evidence.lines)
  BY <1>11, <1>13, FeedLater DEF Inv
<1>17. ASSUME NEW e \in Items(evidence.lines)
       PROVE  EvidenceStamped(e, memberships) /\ \E y \in Traces : From(y, T[y], e)
  <2>1. PICK y \in Traces : From(y, trace[y], e)
    BY DEF Inv, EvidenceOk
  <2>2. From(y, T[y], e)
    BY <1>11, <2>1, FromLater
  <2> QED BY <2>2 DEF Inv, EvidenceOk
<1>18. Shape'
  BY <1>1, <1>6, <1>8, <1>9, <1>10 DEF Shape
<1>19. EvidenceOk'
  BY <1>6, <1>9, <1>17 DEF EvidenceOk
<1>20. Moved(memberships, trace[Root], now)'
  BY <1>6, <1>9, <1>14
<1>21. /\ FeedOut(trace[Root], saved[Root], run[Root], feed.lines)'
       /\ FeedOk(trace[Root], memberships, feed.lines, evidence.lines)'
  BY <1>6, <1>9, <1>15, <1>16
<1>22. \A y \in Traces : Rollout(y, trace[y], scene.records[y], now, inode[y],
                                 saved[y], run[y], memberships, evidence.lines)'
  BY <1>6, <1>9, <1>12
<1> QED BY <1>18, <1>19, <1>20, <1>21, <1>22 DEF Inv


LEMMA StartedIs ==
  ASSUME Inv, NEW tr \in Traces
  PROVE  \E c \in 0 .. Len(trace[tr]) :
            /\ NumberedTo(trace[tr], c) /\ Started(tr) = 1 .. c
            /\ Cardinality(Started(tr)) = c
<1>1. PICK S, limit : S = trace[tr] /\ limit = scene.records[tr]
  OBVIOUS
<1>2. Written(S, limit, now) /\ S \in Seq(Record) /\ limit \in Nat
  BY <1>1, Parts, SceneIs DEF Inv
<1>3. PICK c \in 0 .. Len(S) : NumberedTo(S, c)
  BY <1>2 DEF Written, Numbered
<1>4. c \in Nat /\ c <= limit
  BY <1>2, <1>3 DEF Written
<1>5. Started(tr) = {x \in 1 .. limit : \E i \in DOMAIN S : IsStart(S, i, x)}
  BY <1>1 DEF Started, IsStart
<1>6. Started(tr) = 1 .. c
  <2>1. ASSUME NEW x PROVE x \in 1 .. c <=> x \in 1 .. limit /\ \E i \in DOMAIN S : IsStart(S, i, x)
    <3>1. x \in 1 .. c \/ x \in 1 .. limit => x \in Nat
      OBVIOUS
    <3>2. x \in 1 .. c => x \in 1 .. limit
      BY <1>2, <1>4
    <3> QED BY <1>3, <3>1, <3>2 DEF NumberedTo
  <2> QED BY <1>5, <2>1
<1>7. Cardinality(1 .. c) = c
  <2>1. 1 \in Int /\ c \in Int /\ c - 1 + 1 = c
    BY <1>4
  <2>2. Cardinality(1 .. c) = IF 1 > c THEN 0 ELSE c - 1 + 1
    BY <2>1, FS_Interval
  <2> QED BY <1>4, <2>1, <2>2
<1> QED BY <1>1, <1>3, <1>6, <1>7

LEMMA CodexStarts ==
  ASSUME Inv, NEW tr \in Traces, TaskStarted(tr)
  PROVE  Inv'
<1>1. PICK c \in 0 .. Len(trace[tr]) : NumberedTo(trace[tr], c) /\ Cardinality(Started(tr)) = c
  BY StartedIs
<1>2. ~scene.reopens
  BY DEF Inv, Shape
<1>3. WriteRecord(tr, "started", c + 1)
  BY <1>1, <1>2 DEF TaskStarted
<1>4. PICK r : r = [kind |-> "started", turn |-> c + 1, at |-> now, native |-> FloorSecond(now)]
  OBVIOUS
<1>5. c + 1 \in Nat
  BY Parts DEF Ordered
<1>6. NoTurn \notin Nat
  BY SceneIs DEF Inv
<1>7. Legal(trace[tr], r)
  <2>1. r.kind = "started" /\ r.turn = c + 1 /\ r.turn # NoTurn
    BY <1>4, <1>5, <1>6
  <2> QED BY <1>1, <2>1 DEF Legal
<1> QED BY <1>3, <1>4, <1>5, <1>7, Writes

LEMMA CodexCounts ==
  ASSUME Inv, NEW tr \in Traces, TokenCount(tr)
  PROVE  Inv'
<1>1. WriteRecord(tr, "usage", NoTurn)
  BY DEF TokenCount
<1>2. PICK r : r = [kind |-> "usage", turn |-> NoTurn, at |-> now, native |-> FloorSecond(now)]
  OBVIOUS
<1>3. Legal(trace[tr], r)
  BY <1>2 DEF Legal
<1> QED BY <1>1, <1>2, <1>3, Writes

LEMMA CodexEnds ==
  ASSUME Inv, NEW tr \in Traces, TaskEnded(tr)
  PROVE  Inv'
<1>1. PICK i \in DOMAIN trace[tr] :
         /\ trace[tr][i].kind = "started"
         /\ \A j \in i + 1 .. Len(trace[tr]) : trace[tr][j].kind = "usage"
         /\ WriteRecord(tr, "ended", trace[tr][i].turn)
  BY DEF TaskEnded
<1>2. PICK S, x : S = trace[tr] /\ x = S[i].turn
  OBVIOUS
<1>3. Ordered(S) /\ S \in Seq(Record)
  BY <1>2, Parts
<1>4. S[i] \in Record /\ S[i].kind = "started" /\ i \in 1 .. Len(S) /\ i \in 1 .. (Len(S) + 1) - 1
  BY <1>1, <1>2, <1>3
<1>5. x \in Nat \union {NoTurn} /\ x # NoTurn
  BY <1>2, <1>3, <1>4, <1>1 DEF Ordered, Record
<1>6. Open(S, i, Len(S) + 1)
  <2>1. \A j \in i + 1 .. (Len(S) + 1) - 1 : S[j].kind = "usage"
    <3>1. (Len(S) + 1) - 1 = Len(S)
      BY <1>3
    <3> QED BY <1>1, <1>2, <3>1
  <2> QED BY <1>4, <2>1 DEF Open
<1>7. PICK r : r = [kind |-> "ended", turn |-> x, at |-> now, native |-> FloorSecond(now)]
  OBVIOUS
<1>8. Legal(S, r)
  <2>1. r.kind = "ended" /\ r.turn = x
    BY <1>7
  <2> QED BY <1>2, <1>4, <1>5, <1>6, <2>1 DEF Legal
<1>9. WriteRecord(tr, "ended", x)
  BY <1>1, <1>2
<1> QED BY <1>2, <1>5, <1>7, <1>8, <1>9, Writes


-----------------------------------------------------------------------------
(* The steps of a run *)

LEMMA MoreOut ==
  ASSUME NEW tr, NEW S, NEW d, NEW u
  PROVE  /\ \A E, E2 : Ids(E) \subseteq Ids(E2) /\ EvidenceOut(tr, S, d, u, E) =>
               EvidenceOut(tr, S, d, u, E2)
         /\ \A L, L2 : DOMAIN L \subseteq DOMAIN L2 /\ FeedOut(S, d, u, L) => FeedOut(S, d, u, L2)
<1>1. ASSUME NEW E, NEW E2, Ids(E) \subseteq Ids(E2), EvidenceOut(tr, S, d, u, E)
      PROVE  EvidenceOut(tr, S, d, u, E2)
  BY <1>1 DEF EvidenceOut, Backed
<1>2. ASSUME NEW L, NEW L2, DOMAIN L \subseteq DOMAIN L2, FeedOut(S, d, u, L)
      PROVE  FeedOut(S, d, u, L2)
  BY <1>2 DEF FeedOut, Out
<1> QED BY <1>1, <1>2

(* A step of a rollout's run, or of its file. *)
LEMMA Runs ==
  ASSUME Inv, NEW tr \in Traces, NEW ino \in Nat, NEW d \in Saved, NEW u \in Run, NEW f,
         NEW ev \in Files(Evidence), NEW fd \in Files(Turn),
         inode' = [inode EXCEPT ![tr] = ino], saved' = [saved EXCEPT ![tr] = d],
         run' = [run EXCEPT ![tr] = u], faults' = f, evidence' = ev, feed' = fd,
         UNCHANGED <<scene, now, trace, memberships>>,
         f \in 0 .. scene.faults, faults <= f, ino \in 1 .. 1 + f,
         SavedOk(tr, trace[tr], d, ino), RunOk(tr, trace[tr], d, u, ino),
         Logged(trace[tr], u, memberships),
         EvidenceOut(tr, trace[tr], d, u, ev.lines),
         tr = Root => FeedOut(trace[Root], d, u, fd.lines),
         Ids(evidence.lines) \subseteq Ids(ev.lines), DOMAIN feed.lines \subseteq DOMAIN fd.lines,
         FeedOk(trace[Root], memberships, fd.lines, ev.lines),
         \A e \in Items(ev.lines) :
            EvidenceStamped(e, memberships) /\ \E y \in Traces : From(y, trace[y], e)
  PROVE  Inv'
<1>1. Shape /\ Root \in Traces
  BY SceneIs DEF Inv
<1> HIDE DEF Traces
<1>2. /\ inode'[tr] = ino /\ saved'[tr] = d /\ run'[tr] = u
      /\ \A y \in Traces : y # tr =>
            inode'[y] = inode[y] /\ saved'[y] = saved[y] /\ run'[y] = run[y]
      /\ inode' \in [Traces -> Nat] /\ saved' \in [Traces -> Saved] /\ run' \in [Traces -> Run]
  BY <1>1 DEF Shape
<1>3. \A y \in Traces : inode'[y] \in 1 .. 1 + f
  <2>1. SUFFICES ASSUME NEW y \in Traces, y # tr PROVE inode[y] \in 1 .. 1 + f
    BY <1>2
  <2>2. inode[y] \in 1 .. 1 + faults /\ faults \in Nat /\ f \in Nat
    BY <1>1, SceneIs DEF Shape
  <2> QED BY <2>2
<1>4. Shape'
  BY <1>1, <1>2, <1>3 DEF Shape
<1>5. ASSUME NEW y \in Traces
      PROVE  Rollout(y, trace[y], scene.records[y], now, inode[y],
                     saved[y], run[y], memberships, evidence.lines)'
  <2>1. CASE y = tr
    <3>1. Written(trace[tr], scene.records[tr], now)
      BY Parts
    <3>2. Rollout(tr, trace[tr], scene.records[tr], now, ino, d, u, memberships, ev.lines)
      BY <3>1 DEF Rollout
    <3> QED BY <1>2, <2>1, <3>2
  <2>2. CASE y # tr
    <3>1. UNCHANGED <<inode[y], saved[y], run[y]>>
      BY <1>2, <2>2
    <3>2. Rollout(y, trace[y], scene.records[y], now, inode[y],
                  saved[y], run[y], memberships, evidence.lines)
      BY Parts
    <3>3. EvidenceOut(y, trace[y], saved[y], run[y], ev.lines)
      BY <3>2, MoreOut DEF Rollout
    <3> QED BY <3>1, <3>2, <3>3 DEF Rollout
  <2> QED BY <2>1, <2>2
<1>6. FeedOut(trace[Root], saved[Root], run[Root], feed.lines)'
  <2>1. CASE tr = Root
    BY <1>2, <2>1
  <2>2. CASE tr # Root
    <3>2. UNCHANGED <<saved[Root], run[Root]>>
      BY <1>1, <1>2, <2>2
    <3>3. FeedOut(trace[Root], saved[Root], run[Root], feed.lines)
      BY DEF Inv
    <3>4. FeedOut(trace[Root], saved[Root], run[Root], fd.lines)
      BY <3>3, MoreOut
    <3> QED BY <3>2, <3>4
  <2> QED BY <2>1, <2>2
<1>7. Moved(memberships, trace[Root], now)'
  BY DEF Inv
<1>8. FeedOk(trace[Root], memberships, feed.lines, evidence.lines)' /\ EvidenceOk'
  BY DEF EvidenceOk
<1> QED BY <1>4, <1>5, <1>6, <1>7, <1>8 DEF Inv

(* Such a step that appends nothing. *)
LEMMA RunsQuietly ==
  ASSUME Inv, NEW tr \in Traces, NEW ino \in Nat, NEW d \in Saved, NEW u \in Run, NEW f,
         inode' = [inode EXCEPT ![tr] = ino], saved' = [saved EXCEPT ![tr] = d],
         run' = [run EXCEPT ![tr] = u], faults' = f,
         UNCHANGED <<scene, now, trace, memberships, evidence, feed>>,
         f \in 0 .. scene.faults, faults <= f, ino \in 1 .. 1 + f,
         SavedOk(tr, trace[tr], d, ino), RunOk(tr, trace[tr], d, u, ino),
         Logged(trace[tr], u, memberships),
         EvidenceOut(tr, trace[tr], d, u, evidence.lines),
         tr = Root => FeedOut(trace[Root], d, u, feed.lines)
  PROVE  Inv'
<1>1. evidence \in Files(Evidence) /\ feed \in Files(Turn)
  BY DEF Inv, Shape
<1>2. PICK ev, fd : ev = evidence /\ fd = feed
  OBVIOUS
<1>3. /\ FeedOk(trace[Root], memberships, fd.lines, ev.lines)
      /\ \A e \in Items(ev.lines) :
            EvidenceStamped(e, memberships) /\ \E y \in Traces : From(y, trace[y], e)
  BY <1>2 DEF Inv, EvidenceOk
<1>4. /\ evidence' = ev /\ feed' = fd /\ ev \in Files(Evidence) /\ fd \in Files(Turn)
      /\ EvidenceOut(tr, trace[tr], d, u, ev.lines)
      /\ tr = Root => FeedOut(trace[Root], d, u, fd.lines)
      /\ Ids(evidence.lines) \subseteq Ids(ev.lines) /\ DOMAIN feed.lines \subseteq DOMAIN fd.lines
  BY <1>1, <1>2
<1> QED BY <1>3, <1>4, Runs

LEMMA Same ==
  ASSUME Inv, NEW tr \in Traces
  PROVE  /\ inode = [inode EXCEPT ![tr] = inode[tr]]
         /\ saved = [saved EXCEPT ![tr] = saved[tr]]
         /\ run = [run EXCEPT ![tr] = run[tr]]
         /\ inode[tr] \in 1 .. 1 + faults /\ faults \in 0 .. scene.faults /\ faults \in Nat
         /\ scene.faults \in Nat
         /\ tr = Root => FeedOut(trace[Root], saved[tr], run[tr], feed.lines)
<1>1. Shape
  BY DEF Inv
<1> HIDE DEF Traces
<1> QED BY <1>1, SceneIs DEF Shape, Inv

LEMMA RotateKeeps ==
  ASSUME Inv, NEW tr \in Traces, Rotate(tr)
  PROVE  Inv'
<1>1. PICK S, d, u, ino : S = trace[tr] /\ d = saved[tr] /\ u = run[tr] /\ ino = inode[tr]
  OBVIOUS
<1>2. SavedOk(tr, S, d, ino) /\ RunOk(tr, S, d, u, ino) /\ ino \in Nat /\ d \in Saved /\ u \in Run
  BY <1>1, Parts
<1>3. SavedOk(tr, S, d, ino + 1)
  BY <1>2 DEF SavedOk
<1>4. RunOk(tr, S, d, u, ino + 1)
  BY <1>2 DEF RunOk
<1>5. /\ inode' = [inode EXCEPT ![tr] = ino + 1] /\ faults' = faults + 1
      /\ UNCHANGED <<scene, now, trace, memberships, run, saved, evidence, feed>>
      /\ faults < scene.faults
  <2>1. inode' = [inode EXCEPT ![tr] = inode[tr] + 1]
    BY Same DEF Rotate
  <2> QED BY <1>1, <2>1 DEF Rotate, files
<1>6. /\ saved' = [saved EXCEPT ![tr] = d] /\ run' = [run EXCEPT ![tr] = u]
      /\ tr = Root => FeedOut(trace[Root], d, u, feed.lines)
      /\ ino \in 1 .. 1 + faults
  BY <1>1, <1>5, Same
<1>7. /\ faults + 1 \in 0 .. scene.faults /\ faults <= faults + 1 /\ ino + 1 \in Nat
      /\ ino + 1 \in 1 .. 1 + (faults + 1)
  BY <1>5, <1>6, Same
<1>8. Logged(S, u, memberships) /\ EvidenceOut(tr, S, d, u, evidence.lines)
  BY <1>1, Parts
<1>9. PICK ino2, f : ino2 = ino + 1 /\ f = faults + 1
  OBVIOUS
<1> QED BY <1>1, <1>2, <1>3, <1>4, <1>5, <1>6, <1>7, <1>8, <1>9, RunsQuietly


LEMMA IdleIs ==
  /\ Idle \in Run /\ Idle.phase = "idle" /\ Idle.log = <<>> /\ Idle.normalizer \in Normalizer
  /\ Idle.offset = 0 /\ Idle.inode = 0
<1>1. NewNormalizer \in Normalizer
  BY NewKnown DEF Knows
<1>2. <<>> \in Seq(Membership)
  OBVIOUS
<1>3. "idle" \in Phases
  BY DEF Phases
<1> QED BY <1>1, <1>2, <1>3 DEF Idle, Run

LEMMA PrefixNothing ==
  ASSUME NEW m \in Seq(Membership)
  PROVE  Prefix(<<>>, m) /\ Prefix(m, m)
BY DEF Prefix

(* A run that has read nothing owes nothing. *)
LEMMA YoungRun ==
  ASSUME NEW tr, NEW S, NEW d, NEW ino, NEW u \in Run, u.phase \notin HasRead,
         u.phase # "idle" => u.inode \in 1 .. ino /\ (u.resume => d.inode # 0),
         u.log = <<>>, NEW m \in Seq(Membership)
  PROVE  /\ RunOk(tr, S, d, u, ino) /\ Logged(S, u, m)
         /\ \A E : Backed(tr, S, d.offset, E) => EvidenceOut(tr, S, d, u, E)
         /\ \A L : Out(S, d.offset, L) => FeedOut(S, d, u, L)
<1>1. u.phase \notin HasStamped /\ u.phase \notin {"evidenced", "published"} /\ u.phase # "published"
  BY DEF HasRead, HasStamped
<1>2. Prefix(u.log, m)
  BY PrefixNothing
<1> QED BY <1>1, <1>2 DEF RunOk, Logged, EvidenceOut, FeedOut

LEMMA MembershipsType ==
  ASSUME Inv
  PROVE  memberships \in Seq(Membership)
BY DEF Inv, Moved

LEMMA BeginKeeps ==
  ASSUME Inv, NEW tr \in Traces, Begin(tr)
  PROVE  Inv'
<1>1. PICK reset \in BOOLEAN :
         /\ reset => faults < scene.faults
         /\ run' = [run EXCEPT ![tr] = [Idle EXCEPT !.phase = "begun", !.reset = reset,
                                               !.inode = inode[tr],
                                               !.resume = CanResume(tr, reset)]]
         /\ faults' = IF reset THEN faults + 1 ELSE faults
         /\ UNCHANGED <<scene, now, trace, inode, memberships, saved, evidence, feed>>
  BY DEF Begin, Set, files
<1>2. PICK S, d, ino, u, f :
         /\ S = trace[tr] /\ d = saved[tr] /\ ino = inode[tr] /\ f = faults'
         /\ u = [Idle EXCEPT !.phase = "begun", !.reset = reset, !.inode = inode[tr],
                             !.resume = CanResume(tr, reset)]
  OBVIOUS
<1>3. /\ SavedOk(tr, S, d, ino) /\ ino \in Nat /\ d \in Saved
      /\ EvidenceOut(tr, S, d, run[tr], evidence.lines)
      /\ tr = Root => FeedOut(trace[Root], d, run[tr], feed.lines)
  BY <1>2, Parts, Same
<1>4. /\ ino \in 1 .. 1 + faults /\ faults \in 0 .. scene.faults /\ faults \in Nat
      /\ scene.faults \in Nat
  BY <1>2, Same
<1>5. f \in 0 .. scene.faults /\ faults <= f /\ ino \in 1 .. 1 + f
  BY <1>1, <1>2, <1>4
<1>6. CanResume(tr, reset) \in BOOLEAN /\ (CanResume(tr, reset) => d.inode = ino)
  BY <1>2 DEF CanResume
<1>7. /\ u.phase = "begun" /\ u.inode = ino /\ u.log = <<>> /\ u.resume = CanResume(tr, reset)
      /\ u \in Run
  BY <1>2, <1>3, <1>6, IdleIs DEF Run, Phases
<1>8. u.phase \notin HasRead /\ u.inode \in 1 .. ino /\ (u.resume => d.inode # 0)
  BY <1>4, <1>6, <1>7 DEF HasRead
<1>9. /\ RunOk(tr, S, d, u, ino) /\ Logged(S, u, memberships)
      /\ \A E : Backed(tr, S, d.offset, E) => EvidenceOut(tr, S, d, u, E)
      /\ \A L : Out(S, d.offset, L) => FeedOut(S, d, u, L)
  BY <1>7, <1>8, YoungRun, MembershipsType
<1>10. EvidenceOut(tr, S, d, u, evidence.lines)
  BY <1>3, <1>9 DEF EvidenceOut
<1>11. tr = Root => FeedOut(trace[Root], d, u, feed.lines)
  BY <1>2, <1>3, <1>9 DEF FeedOut
<1>12. /\ inode' = [inode EXCEPT ![tr] = ino] /\ saved' = [saved EXCEPT ![tr] = d]
       /\ run' = [run EXCEPT ![tr] = u] /\ faults' = f
  BY <1>1, <1>2, Same
<1>13. /\ SavedOk(tr, trace[tr], d, ino) /\ RunOk(tr, trace[tr], d, u, ino)
       /\ Logged(trace[tr], u, memberships)
       /\ EvidenceOut(tr, trace[tr], d, u, evidence.lines) /\ u \in Run
  BY <1>2, <1>3, <1>7, <1>9, <1>10
<1>14. UNCHANGED <<scene, now, trace, memberships, evidence, feed>>
  BY <1>1
<1> QED BY <1>3, <1>5, <1>11, <1>12, <1>13, <1>14, RunsQuietly

(* A run gives up, or dies before it appends. *)
LEMMA GivesUp ==
  ASSUME Inv, NEW tr \in Traces, run' = [run EXCEPT ![tr] = Idle], NEW f, faults' = f,
         f \in 0 .. scene.faults, faults <= f,
         UNCHANGED <<scene, now, trace, inode, memberships, saved, evidence, feed>>
  PROVE  Inv'
<1>1. PICK S, d, ino : S = trace[tr] /\ d = saved[tr] /\ ino = inode[tr]
  OBVIOUS
<1>2. /\ SavedOk(tr, S, d, ino) /\ ino \in Nat /\ d \in Saved
      /\ EvidenceOut(tr, S, d, run[tr], evidence.lines)
      /\ tr = Root => FeedOut(trace[Root], d, run[tr], feed.lines)
  BY <1>1, Parts, Same
<1>3. ino \in 1 .. 1 + f
  <2>1. ino \in 1 .. 1 + faults /\ faults \in Nat /\ scene.faults \in Nat
    BY <1>1, Same
  <2> QED BY <2>1
<1>4. Idle.phase \notin HasRead
  BY IdleIs DEF HasRead
<1>5. /\ RunOk(tr, S, d, Idle, ino) /\ Logged(S, Idle, memberships)
      /\ \A E : Backed(tr, S, d.offset, E) => EvidenceOut(tr, S, d, Idle, E)
      /\ \A L : Out(S, d.offset, L) => FeedOut(S, d, Idle, L)
  BY <1>4, IdleIs, YoungRun, MembershipsType
<1>6. EvidenceOut(tr, S, d, Idle, evidence.lines)
  BY <1>2, <1>5 DEF EvidenceOut
<1>7. tr = Root => FeedOut(trace[Root], d, Idle, feed.lines)
  BY <1>1, <1>2, <1>5 DEF FeedOut
<1>8. inode' = [inode EXCEPT ![tr] = ino] /\ saved' = [saved EXCEPT ![tr] = d]
  BY <1>1, Same
<1> QED BY <1>1, <1>2, <1>3, <1>5, <1>6, <1>7, <1>8, IdleIs, RunsQuietly

LEMMA NothingResumed ==
  ASSUME NEW tr \in Traces, NEW S, Ordered(S)
  PROVE  Resumes(Read(tr, S, 0), NewNormalizer, Read(tr, S, 0))
<1>1. Read(tr, S, 0) = NewNormalizer
  <2>1. 1 \in Nat \ {0} /\ 0 \in Nat /\ 0 < 1
    OBVIOUS
  <2> QED BY <2>1, ReadNothing DEF Read
<1>2. NewNormalizer \in Normalizer
  BY NewKnown DEF Knows
<1>3. /\ NewNormalizer.turns = <<>> /\ NewNormalizer.outTurns = <<>>
      /\ NewNormalizer.outEvidence = <<>>
  BY DEF NewNormalizer
<1>4. DOMAIN NewNormalizer.turns = {}
  BY <1>3
<1>5. /\ NewNormalizer.outTurns = NewNormalizer.outTurns \o NewNormalizer.outTurns
      /\ NewNormalizer.outEvidence = NewNormalizer.outEvidence \o NewNormalizer.outEvidence
  <2>1. <<>> \in Seq(Turn)
    OBVIOUS
  <2>2. <<>> \o <<>> = <<>>
    BY <2>1, ConcatNothing
  <2> QED BY <1>3, <2>2, Zenon
<1>6. Resumes(NewNormalizer, NewNormalizer, NewNormalizer)
  BY <1>2, <1>4, <1>5 DEF Resumes
<1> QED BY <1>1, <1>6

LEMMA ReadResumes ==
  ASSUME NEW tr \in Traces, NEW S, Ordered(S), NEW d, NEW u, NEW ino,
         SavedOk(tr, S, d, ino), u.resume => d.inode # 0, NEW n,
         n = IF u.resume THEN ReadForward(tr, S, d.normalizer, d.offset + 1, Len(S))
                         ELSE Read(tr, S, Len(S))
  PROVE  Resumes(Read(tr, S, Base(d, u)), n, Read(tr, S, Len(S)))
<1>1. PICK k \in Nat : k = Len(S)
  BY DEF Ordered
<1>2. CASE u.resume
  <2>1. PICK b : b = d.offset
    OBVIOUS
  <2>2. b \in 0 .. Len(S) /\ d.normalizer = Snapshot(Read(tr, S, b)) /\ Base(d, u) = b
    BY <1>2, <2>1 DEF SavedOk, Base
  <2>3. k \in b .. Len(S)
    BY <1>1, <2>2
  <2>4. Resumes(Read(tr, S, b), d.normalizer, Read(tr, S, b))
    BY <2>2, NormalizerType, ResumesAtCheckpoint
  <2>5. Resumes(Read(tr, S, b), ReadForward(tr, S, d.normalizer, b + 1, k), Read(tr, S, k))
    BY <2>2, <2>3, <2>4, ResumedRead
  <2> QED BY <1>1, <1>2, <2>1, <2>2, <2>5
<1>3. CASE ~u.resume
  <2>1. 0 \in 0 .. Len(S) /\ k \in 0 .. Len(S) /\ 0 + 1 = 1 /\ Base(d, u) = 0
    BY <1>1, <1>3 DEF Base
  <2>2. Resumes(Read(tr, S, 0), NewNormalizer, Read(tr, S, 0))
    BY NothingResumed
  <2>3. Resumes(Read(tr, S, 0), ReadForward(tr, S, NewNormalizer, 0 + 1, k), Read(tr, S, k))
    BY <2>1, <2>2, ResumedRead
  <2>4. Resumes(Read(tr, S, 0), Read(tr, S, k), Read(tr, S, k))
    BY <2>1, <2>3 DEF Read
  <2> QED BY <1>1, <1>3, <2>1, <2>4
<1> QED BY <1>2, <1>3


LEMMA ReadKeeps ==
  ASSUME Inv, NEW tr \in Traces, ReadTrace(tr)
  PROVE  Inv'
<1>1. PICK S, d, ino, u : S = trace[tr] /\ d = saved[tr] /\ ino = inode[tr] /\ u = run[tr]
  OBVIOUS
<1>2. /\ Ordered(S) /\ SavedOk(tr, S, d, ino) /\ RunOk(tr, S, d, u, ino) /\ ino \in Nat
      /\ d \in Saved /\ u \in Run /\ Logged(S, u, memberships)
      /\ EvidenceOut(tr, S, d, u, evidence.lines)
      /\ tr = Root => FeedOut(trace[Root], d, u, feed.lines)
      /\ ino \in 1 .. 1 + faults /\ faults \in 0 .. scene.faults /\ faults <= faults
  BY <1>1, Parts, Same
<1>3. /\ u.phase = "begun" /\ faults' = faults
      /\ UNCHANGED <<scene, now, trace, inode, memberships, saved, evidence, feed>>
  BY <1>1 DEF ReadTrace, files
<1>4. CASE u.inode # ino
  <2>1. run' = [run EXCEPT ![tr] = Idle]
    BY <1>1, <1>4 DEF ReadTrace, Set
  <2> QED BY <1>2, <1>3, <2>1, GivesUp
<1>5. CASE u.inode = ino
  <2>1. PICK n : n = IF u.resume THEN ReadForward(tr, S, d.normalizer, d.offset + 1, Len(S))
                                 ELSE Read(tr, S, Len(S))
    OBVIOUS
  <2>2. PICK w : w = [u EXCEPT !.phase = "read", !.offset = Len(S), !.normalizer = n]
    OBVIOUS
  <2>3. run' = [run EXCEPT ![tr] = w]
    BY <1>1, <1>5, <2>1, <2>2 DEF ReadTrace, Set, Replay, Read
  <2>4. u.phase # "idle" /\ (u.resume => d.inode # 0) /\ u.inode \in 1 .. ino
    BY <1>2, <1>3 DEF RunOk
  <2>5. Resumes(Read(tr, S, Base(d, u)), n, Read(tr, S, Len(S)))
    BY <1>2, <2>1, <2>4, ReadResumes
  <2>6. n \in Normalizer /\ Len(S) \in Nat
    BY <1>2, <2>5 DEF Resumes, Ordered
  <2>7. /\ w \in Run /\ w.phase = "read" /\ w.offset = Len(S) /\ w.normalizer = n
        /\ w.inode = u.inode /\ w.resume = u.resume /\ w.log = u.log
    BY <1>2, <2>2, <2>6 DEF Run, Phases
  <2>8. Base(d, w) = Base(d, u) /\ Len(S) \in Base(d, u) .. Len(S)
    <3>1. Base(d, u) \in 0 .. Len(S)
      BY <1>2, BaseIs
    <3> QED BY <2>6, <2>7, <3>1 DEF Base
  <2>9. RunOk(tr, S, d, w, ino)
    BY <2>4, <2>5, <2>7, <2>8 DEF RunOk
  <2>10. Logged(S, w, memberships)
    BY <1>2, <2>7 DEF Logged, HasStamped
  <2>11. EvidenceOut(tr, S, d, w, evidence.lines)
    BY <1>2, <2>7 DEF EvidenceOut
  <2>12. tr = Root => FeedOut(trace[Root], d, w, feed.lines)
    BY <1>2, <2>7 DEF FeedOut
  <2>13. inode' = [inode EXCEPT ![tr] = ino] /\ saved' = [saved EXCEPT ![tr] = d]
    BY <1>1, <1>3, Same
  <2>14. /\ SavedOk(tr, trace[tr], d, ino) /\ RunOk(tr, trace[tr], d, w, ino)
         /\ Logged(trace[tr], w, memberships)
         /\ EvidenceOut(tr, trace[tr], d, w, evidence.lines)
    BY <1>1, <1>2, <2>9, <2>10, <2>11
  <2> QED BY <1>2, <1>3, <2>3, <2>7, <2>12, <2>13, <2>14, RunsQuietly
<1> QED BY <1>4, <1>5

LEMMA ResolveKeeps ==
  ASSUME Inv, NEW tr \in Traces, ResolveMemberships(tr)
  PROVE  Inv'
<1>1. PICK S, d, ino, u, m : S = trace[tr] /\ d = saved[tr] /\ ino = inode[tr] /\ u = run[tr]
                             /\ m = memberships
  OBVIOUS
<1>2. /\ Ordered(S) /\ SavedOk(tr, S, d, ino) /\ RunOk(tr, S, d, u, ino) /\ ino \in Nat
      /\ d \in Saved /\ u \in Run /\ m \in Seq(Membership)
      /\ EvidenceOut(tr, S, d, u, evidence.lines)
      /\ tr = Root => FeedOut(trace[Root], d, u, feed.lines)
      /\ ino \in 1 .. 1 + faults /\ faults \in 0 .. scene.faults /\ faults <= faults
  BY <1>1, Parts, Same, MembershipsType
<1>3. PICK w : w = [u EXCEPT !.phase = "stamped", !.log = m]
  OBVIOUS
<1>4. /\ u.phase = "read" /\ faults' = faults /\ run' = [run EXCEPT ![tr] = w]
      /\ UNCHANGED <<scene, now, trace, inode, memberships, saved, evidence, feed>>
  BY <1>1, <1>3 DEF ResolveMemberships, Set, files
<1>5. /\ w \in Run /\ w.phase = "stamped" /\ w.offset = u.offset
      /\ w.normalizer = u.normalizer /\ w.inode = u.inode /\ w.resume = u.resume /\ w.log = m
  BY <1>2, <1>3 DEF Run, Phases
<1>6. RunOk(tr, S, d, w, ino)
  <2>1. Base(d, w) = Base(d, u)
    BY <1>5 DEF Base
  <2> QED BY <1>2, <1>4, <1>5, <2>1 DEF RunOk, HasRead
<1>7. Logged(S, w, m)
  <2>1. Len(m) + 1 .. Len(m) = {}
    BY <1>2
  <2>2. Prefix(m, m)
    BY <1>2, PrefixNothing
  <2> QED BY <1>5, <2>1, <2>2 DEF Logged, Before
<1>8. EvidenceOut(tr, S, d, w, evidence.lines)
  BY <1>2, <1>5 DEF EvidenceOut
<1>9. tr = Root => FeedOut(trace[Root], d, w, feed.lines)
  BY <1>2, <1>5 DEF FeedOut
<1>10. inode' = [inode EXCEPT ![tr] = ino] /\ saved' = [saved EXCEPT ![tr] = d]
  BY <1>1, <1>4, Same
<1>11. /\ SavedOk(tr, trace[tr], d, ino) /\ RunOk(tr, trace[tr], d, w, ino)
       /\ Logged(trace[tr], w, memberships)
       /\ EvidenceOut(tr, trace[tr], d, w, evidence.lines)
  BY <1>1, <1>2, <1>6, <1>7, <1>8
<1> QED BY <1>2, <1>4, <1>5, <1>9, <1>10, <1>11, RunsQuietly

LEMMA WriteStateKeeps ==
  ASSUME Inv, NEW tr \in Traces, WriteState(tr)
  PROVE  Inv'
<1>1. PICK S, d, ino, u : S = trace[tr] /\ d = saved[tr] /\ ino = inode[tr] /\ u = run[tr]
  OBVIOUS
<1>2. /\ Ordered(S) /\ SavedOk(tr, S, d, ino) /\ RunOk(tr, S, d, u, ino) /\ ino \in Nat
      /\ d \in Saved /\ u \in Run
      /\ EvidenceOut(tr, S, d, u, evidence.lines)
      /\ tr = Root => FeedOut(trace[Root], d, u, feed.lines)
      /\ ino \in 1 .. 1 + faults /\ faults \in 0 .. scene.faults /\ faults <= faults
  BY <1>1, Parts, Same
<1>3. PICK e : e = [inode |-> u.inode, offset |-> u.offset, normalizer |-> Snapshot(u.normalizer)]
  OBVIOUS
<1>4. /\ u.phase = "published" /\ faults' = faults /\ run' = [run EXCEPT ![tr] = Idle]
      /\ saved' = [saved EXCEPT ![tr] = e]
      /\ UNCHANGED <<scene, now, trace, inode, memberships, evidence, feed>>
  BY <1>1, <1>3 DEF WriteState, Set
<1>5. /\ u.inode \in 1 .. ino /\ u.offset \in 0 .. Len(S)
      /\ Resumes(Read(tr, S, Base(d, u)), u.normalizer, Read(tr, S, u.offset))
  BY <1>2, <1>4, OffsetIs DEF RunOk, HasRead
<1>6. Snapshot(u.normalizer) = Snapshot(Read(tr, S, u.offset))
  <2>1. Base(d, u) \in 0 .. Len(S)
    BY <1>2, BaseIs
  <2> QED BY <1>2, <1>5, <2>1, NormalizerType, ResumedSnapshot
<1>7. /\ e \in Saved /\ e.inode = u.inode /\ e.offset = u.offset
      /\ e.normalizer = Snapshot(Read(tr, S, u.offset))
  <2>1. u.normalizer \in Normalizer /\ u.offset \in Nat /\ u.inode \in Nat
    BY <1>2 DEF Run
  <2>2. Snapshot(u.normalizer) \in Normalizer
    BY <2>1, SnapshotIs
  <2> QED BY <1>3, <1>6, <2>1, <2>2 DEF Saved
<1>8. SavedOk(tr, S, e, ino)
  BY <1>2, <1>5, <1>7 DEF SavedOk
<1>9. Idle.phase \notin HasRead
  BY IdleIs DEF HasRead
<1>10. /\ RunOk(tr, S, e, Idle, ino) /\ Logged(S, Idle, memberships)
       /\ \A E : Backed(tr, S, e.offset, E) => EvidenceOut(tr, S, e, Idle, E)
       /\ \A L : Out(S, e.offset, L) => FeedOut(S, e, Idle, L)
  BY <1>9, IdleIs, YoungRun, MembershipsType
<1>11. EvidenceOut(tr, S, e, Idle, evidence.lines)
  BY <1>2, <1>4, <1>7, <1>10 DEF EvidenceOut
<1>12. tr = Root => FeedOut(trace[Root], e, Idle, feed.lines)
  BY <1>1, <1>2, <1>4, <1>7, <1>10 DEF FeedOut
<1>13. inode' = [inode EXCEPT ![tr] = ino]
  BY <1>1, <1>4, Same
<1>14. /\ SavedOk(tr, trace[tr], e, ino) /\ RunOk(tr, trace[tr], e, Idle, ino)
       /\ Logged(trace[tr], Idle, memberships)
       /\ EvidenceOut(tr, trace[tr], e, Idle, evidence.lines)
  BY <1>1, <1>8, <1>10, <1>11
<1> QED BY <1>2, <1>4, <1>7, <1>12, <1>13, <1>14, IdleIs, RunsQuietly


-----------------------------------------------------------------------------
(* The appends *)

LEMMA EvidenceAppended ==
  ASSUME NEW file \in Files(Evidence), NEW b \in Seq(Evidence)
  PROVE  /\ AppendUnique(file, b) \in Files(Evidence)
         /\ EvidenceMore(file.lines, b, AppendUnique(file, b).lines)
         /\ Ids(b) \subseteq Ids(AppendUnique(file, b).lines)
         /\ \A file2 \in AppendInterrupted(file, b) :
               file2 \in Files(Evidence) /\ EvidenceMore(file.lines, b, file2.lines)
<1>1. PICK lines, g : lines = file.lines /\ g = New(file, b)
  OBVIOUS
<1>2. lines \in Seq(Evidence) /\ g = Fresh(Ids(lines), b, Len(b)) /\ g \in Seq(Evidence)
  BY <1>1, NewIs DEF Files, New
<1>3. ASSUME NEW k \in 0 .. Len(g), NEW l, l = lines \o SubSeq(g, 1, k)
      PROVE  /\ EvidenceMore(lines, b, l)
             /\ k = Len(g) => Ids(b) \subseteq Ids(l)
  <2>1. lines \in Seq(Evidence)
    BY <1>2
  <2>2. g = Fresh(Ids(lines), b, Len(b))
    BY <1>2
  <2>3. k \in 0 .. Len(g) /\ l = lines \o SubSeq(g, 1, k)
    BY <1>3
  <2>4. \A h, i, j : /\ h = Fresh(Ids(lines), b, Len(b)) /\ i \in 0 .. Len(h)
                     /\ j = lines \o SubSeq(h, 1, i)
                     => EvidenceMore(lines, b, j) /\ (i = Len(h) => Ids(b) \subseteq Ids(j))
    BY <2>1, EvidenceGrows, Zenon
  <2> QED BY <2>2, <2>3, <2>4, Zenon
<1>4. PICK l : l = AppendUnique(file, b).lines
  OBVIOUS
<1>5. AppendUnique(file, b) \in Files(Evidence) /\ l = lines \o g
  BY <1>1, <1>4, AppendUniqueIs, Zenon
<1>6. SubSeq(g, 1, Len(g)) = g /\ Len(g) \in 0 .. Len(g)
  BY <1>2, WholeSubSeq
<1>7. l = lines \o SubSeq(g, 1, Len(g))
  BY <1>5, <1>6, Zenon
<1>8. EvidenceMore(lines, b, l) /\ Ids(b) \subseteq Ids(l)
  BY <1>3, <1>6, <1>7, Zenon
<1>9. ASSUME NEW file2 \in AppendInterrupted(file, b)
      PROVE  file2 \in Files(Evidence) /\ EvidenceMore(lines, b, file2.lines)
  <2>1. PICK h : h = file2.lines
    OBVIOUS
  <2>2. file2 \in Files(Evidence) /\ \E k \in 0 .. Len(g) : h = lines \o SubSeq(g, 1, k)
    BY <1>1, <2>1, AppendInterruptedIs, Zenon
  <2>3. EvidenceMore(lines, b, h)
    BY <1>3, <2>2, Zenon
  <2> QED BY <2>1, <2>2, <2>3, Zenon
<1> QED BY <1>1, <1>4, <1>5, <1>8, <1>9, Zenon

(* The time of a record is that of a line it was read from, or before. *)
LEMMA RoutedTimes ==
  ASSUME NEW tr \in Traces, NEW S, NEW limit, NEW t, Written(S, limit, t),
         NEW k \in 0 .. Len(S), NEW x \in Routed(tr, Read(tr, S, k))
  PROVE  x \in Evidence /\ x.workstream = Unscoped /\ \E l \in 1 .. k : x.at <= S[l].at
<1>1. PICK n : n = Read(tr, S, k)
  OBVIOUS
<1>2. Ordered(S) /\ Knows(tr, S, k, n) /\ n \in Normalizer
  BY <1>1, ReplayKnown DEF Written, Knows
<1>3. \A l \in 1 .. k : l \in DOMAIN S /\ S[l] \in Record /\ S[l].native <= S[l].at
  BY <1>2 DEF Ordered, Written
<1>4. x \in Evidence
  <2>1. x \in Items(RouteEvidence(tr, n)) /\ RouteEvidence(tr, n) \in Seq(Evidence)
    BY <1>1, <1>2, RouteEvidenceIs
  <2>2. PICK r : r = RouteEvidence(tr, n)
    OBVIOUS
  <2> QED BY <2>1, <2>2 DEF Items
<1>5. CASE x \in Items(n.outEvidence)
  <2>1. PICK i \in DOMAIN n.outEvidence : x = n.outEvidence[i]
    BY <1>5 DEF Items
  <2>2. PICK y \in DOMAIN n.turns, l \in 1 .. k :
            n.outEvidence[i] = [id |-> <<tr, y, l>>, at |-> S[l].at, content |-> NoTurn,
                                workstream |-> Unscoped]
    BY <1>2 DEF Knows, KnowsEvidence
  <2>3. x.at = S[l].at /\ x.workstream = Unscoped
    BY <2>1, <2>2
  <2>4. S[l].at \in Nat
    BY <1>3 DEF Record
  <2>5. x.at <= S[l].at
    BY <2>3, <2>4
  <2> QED BY <1>4, <2>3, <2>5
<1>6. CASE x \notin Items(n.outEvidence)
  <2>1. PICK y \in Items(n.outTurns) : x = TurnEvidence(y)
    BY <1>1, <1>6 DEF Routed
  <2>2. PICK i \in DOMAIN n.outTurns : y = n.outTurns[i]
    BY <2>1 DEF Items
  <2>3. PICK l \in 1 .. k : y.ended = S[l].native
    BY <1>2, <2>2 DEF Knows, KnowsEnded
  <2>4. x.at = S[l].native /\ x.workstream = Unscoped
    BY <2>1, <2>3 DEF TurnEvidence
  <2> QED BY <1>3, <1>4, <2>4
<1> QED BY <1>5, <1>6

LEMMA BatchEvidence ==
  ASSUME NEW tr \in Traces, NEW S, NEW limit, NEW t, Written(S, limit, t),
         NEW k \in 0 .. Len(S), NEW M \in Normalizer,
         Routed(tr, M) \subseteq Routed(tr, Read(tr, S, k)),
         NEW m \in Seq(Membership), NEW log \in Seq(Membership), Prefix(log, m),
         Before(S, k, m, Len(log)),
         NEW b, b = StampEvidence(RouteEvidence(tr, M), log)
  PROVE  /\ b \in Seq(Evidence) /\ \A x \in Routed(tr, M) : x.id \in Ids(b)
         /\ \A e \in Items(b) : EvidenceStamped(e, m) /\ From(tr, S, e)
<1>1. PICK r : r = RouteEvidence(tr, M)
  OBVIOUS
<1>2. r \in Seq(Evidence) /\ Items(r) = Routed(tr, M)
  BY <1>1, RouteEvidenceIs
<1>3. /\ b \in Seq(Evidence) /\ Len(b) = Len(r)
      /\ \A i \in 1 .. Len(r) : b[i] = Restamped(r[i], MembershipAt(log, r[i].at))
  BY <1>1, <1>2, StampEvidenceIs
<1>4. DOMAIN b = DOMAIN r /\ DOMAIN r = 1 .. Len(r)
  BY <1>2, <1>3
<1>5. Ordered(S) /\ Len(S) \in 0 .. Len(S) /\ Len(S) \in k .. Len(S)
  BY DEF Written, Ordered
<1>6. ASSUME NEW i \in DOMAIN b
      PROVE  EvidenceStamped(b[i], m) /\ From(tr, S, b[i]) /\ b[i].id = r[i].id
  <2>1. PICK x, w : x = r[i] /\ w = MembershipAt(log, x.at)
    OBVIOUS
  <2>2. x \in Routed(tr, M) /\ b[i] = Restamped(x, w)
    BY <1>2, <1>3, <1>4, <2>1 DEF Items
  <2>3. x \in Evidence /\ \E l \in 1 .. k : x.at <= S[l].at
    BY <2>2, RoutedTimes
  <2>4. PICK l \in 1 .. k : x.at <= S[l].at
    BY <2>3
  <2>5. /\ b[i].id = x.id /\ b[i].at = x.at /\ b[i].workstream = w
    <3>1. /\ Restamped(x, w).id = x.id /\ Restamped(x, w).at = x.at
          /\ Restamped(x, w).workstream = w
      BY <2>3, RestampedIs
    <3> QED BY <2>2, <3>1, Zenon
  <2>6. ASSUME NEW j \in Len(log) + 1 .. Len(m) PROVE x.at < m[j].made
    <3>1. PICK a, c, z : a = x.at /\ c = S[l].at /\ z = m[j].made
      OBVIOUS
    <3>2. c < z
      BY <3>1 DEF Before
    <3>3. a \in Nat /\ a <= c
      BY <2>3, <2>4, <3>1 DEF Evidence
    <3>4. c \in Nat
      <4>1. l \in DOMAIN S
        BY <1>5 DEF Ordered
      <4>2. S[l] \in Record
        BY <1>5, <4>1 DEF Ordered
      <4> QED BY <3>1, <4>2 DEF Record
    <3>5. z \in Nat
      <4>1. Len(log) + 1 \in Nat /\ Len(log) \in Nat
        OBVIOUS
      <4>2. j \in 1 .. Len(m)
        BY <4>1
      <4>3. m[j] \in Membership
        BY <4>2
      <4> QED BY <3>1, <4>3 DEF Membership
    <3> QED BY <3>1, <3>2, <3>3, <3>4, <3>5
  <2>7. EvidenceStamped(b[i], m)
    BY <2>1, <2>5, <2>6 DEF EvidenceStamped, StampedBy
  <2>8. x \in Routed(tr, Read(tr, S, Len(S)))
    BY <1>5, <2>2, RoutedGrows
  <2>9. From(tr, S, b[i])
    BY <2>2, <2>5, <2>8 DEF From
  <2> QED BY <2>1, <2>5, <2>7, <2>9
<1>7. \A x \in Routed(tr, M) : x.id \in Ids(b)
  BY <1>2, <1>4, <1>6 DEF Items, Ids
<1> QED BY <1>3, <1>6, <1>7 DEF Items


(* What a run reads, and what it publishes. *)
LEMMA RunReads ==
  ASSUME Inv, NEW tr \in Traces, NEW u, u = run[tr], u.phase \in HasRead,
         NEW S, S = trace[tr], NEW d, d = saved[tr]
  PROVE  /\ u.normalizer \in Normalizer /\ u.offset \in 0 .. Len(S)
         /\ u.offset \in Base(d, u) .. Len(S) /\ Base(d, u) \in 0 .. Len(S)
         /\ d.offset \in Base(d, u) .. Len(S)
         /\ Read(tr, S, Base(d, u)) \in Normalizer /\ Read(tr, S, u.offset) \in Normalizer
         /\ Resumes(Read(tr, S, Base(d, u)), u.normalizer, Read(tr, S, u.offset))
<1>1. PICK ino : ino = inode[tr]
  OBVIOUS
<1>2. Ordered(S) /\ SavedOk(tr, S, d, ino) /\ RunOk(tr, S, d, u, ino)
  BY <1>1, Parts
<1>3. u.offset \in Base(d, u) .. Len(S) /\ u.offset \in 0 .. Len(S)
  BY <1>2, OffsetIs
<1>4. Base(d, u) \in 0 .. Len(S)
  BY <1>2, BaseIs
<1>5. d.offset \in Base(d, u) .. Len(S)
  <2>1. Len(S) \in Nat
    BY <1>2 DEF Ordered
  <2> QED BY <1>2, <2>1 DEF SavedOk, Base
<1>6. Resumes(Read(tr, S, Base(d, u)), u.normalizer, Read(tr, S, u.offset))
  BY <1>2 DEF RunOk
<1>7. u.normalizer \in Normalizer
  BY <1>6 DEF Resumes
<1>8. Read(tr, S, Base(d, u)) \in Normalizer /\ Read(tr, S, u.offset) \in Normalizer
  BY <1>2, <1>3, <1>4, NormalizerType
<1> QED BY <1>3, <1>4, <1>5, <1>6, <1>7, <1>8

LEMMA EvidenceStep ==
  ASSUME Inv, NEW tr \in Traces, NEW u, u = run[tr], u.phase = "stamped"
  PROVE  /\ EvidenceBatch(tr) \in Seq(Evidence)
         /\ \A ev \in Files(Evidence) : EvidenceMore(evidence.lines, EvidenceBatch(tr), ev.lines) =>
               /\ FeedOk(trace[Root], memberships, feed.lines, ev.lines)
               /\ \A e \in Items(ev.lines) :
                     EvidenceStamped(e, memberships) /\ \E y \in Traces : From(y, trace[y], e)
               /\ Ids(evidence.lines) \subseteq Ids(ev.lines)
               /\ Ids(EvidenceBatch(tr)) \subseteq Ids(ev.lines) =>
                     Backed(tr, trace[tr], u.offset, ev.lines)
<1>1. PICK S, d, m, M, log, k, b :
         /\ S = trace[tr] /\ d = saved[tr] /\ m = memberships /\ M = u.normalizer /\ log = u.log
         /\ k = u.offset /\ b = EvidenceBatch(tr)
  OBVIOUS
<1>2. u.phase \in HasRead /\ u.phase \in HasStamped
  BY DEF HasRead, HasStamped
<1>3. PICK B, F : B = Read(tr, S, Base(d, u)) /\ F = Read(tr, S, k)
  OBVIOUS
<1>4. /\ M \in Normalizer /\ k \in 0 .. Len(S) /\ B \in Normalizer /\ F \in Normalizer
      /\ Base(d, u) \in 0 .. Len(S) /\ d.offset \in Base(d, u) .. Len(S)
      /\ Resumes(B, M, F)
  BY <1>1, <1>2, <1>3, RunReads
<1>5. Routed(tr, F) = Routed(tr, B) \union Routed(tr, M)
  BY <1>4, ResumedRouted
<1>6. /\ Written(S, scene.records[tr], now) /\ Ordered(S) /\ u \in Run
      /\ Logged(S, u, m) /\ EvidenceOut(tr, S, d, u, evidence.lines)
  BY <1>1, Parts
<1>7. /\ m \in Seq(Membership) /\ log \in Seq(Membership) /\ Prefix(log, m)
      /\ Before(S, k, m, Len(log))
  BY <1>1, <1>2, <1>6, MembershipsType DEF Logged, Run
<1>8. b = StampEvidence(RouteEvidence(tr, M), log)
  BY <1>1 DEF EvidenceBatch
<1>9. /\ b \in Seq(Evidence) /\ \A x \in Routed(tr, M) : x.id \in Ids(b)
      /\ \A e \in Items(b) : EvidenceStamped(e, m) /\ From(tr, S, e)
  <2>1. Routed(tr, M) \subseteq Routed(tr, Read(tr, S, k))
    BY <1>3, <1>5
  <2> QED BY <1>4, <1>6, <1>7, <1>8, <2>1, BatchEvidence
<1>10. Backed(tr, S, Base(d, u), evidence.lines)
  <2>1. Routed(tr, Read(tr, S, Base(d, u))) \subseteq Routed(tr, Read(tr, S, d.offset))
    BY <1>4, <1>6, RoutedGrows
  <2> QED BY <1>6, <2>1 DEF EvidenceOut, Backed
<1>11. ASSUME NEW ev \in Files(Evidence), EvidenceMore(evidence.lines, b, ev.lines)
       PROVE  /\ FeedOk(trace[Root], m, feed.lines, ev.lines)
              /\ \A e \in Items(ev.lines) :
                    EvidenceStamped(e, m) /\ \E y \in Traces : From(y, trace[y], e)
              /\ Ids(evidence.lines) \subseteq Ids(ev.lines)
              /\ Ids(b) \subseteq Ids(ev.lines) => Backed(tr, S, k, ev.lines)
  <2>1. Ids(evidence.lines) \subseteq Ids(ev.lines)
    BY <1>11 DEF EvidenceMore
  <2>2. FeedOk(trace[Root], m, feed.lines, ev.lines)
    <3>1. FeedOk(trace[Root], m, feed.lines, evidence.lines)
      BY <1>1 DEF Inv
    <3> QED BY <2>1, <3>1 DEF FeedOk
  <2>3. ASSUME NEW e \in Items(ev.lines)
        PROVE  EvidenceStamped(e, m) /\ \E y \in Traces : From(y, trace[y], e)
    <3>1. e \in Items(evidence.lines) \/ e \in Items(b)
      BY <1>11 DEF EvidenceMore
    <3> QED BY <1>1, <1>9, <3>1 DEF Inv, EvidenceOk
  <2>4. ASSUME Ids(b) \subseteq Ids(ev.lines) PROVE Backed(tr, S, k, ev.lines)
    <3>1. ASSUME NEW x \in Routed(tr, Read(tr, S, k)) PROVE x.id \in Ids(ev.lines)
      <4>1. x \in Routed(tr, B) \/ x \in Routed(tr, M)
        BY <1>3, <1>5
      <4> QED BY <1>3, <1>9, <1>10, <2>1, <2>4, <4>1 DEF Backed
    <3> QED BY <3>1 DEF Backed
  <2> QED BY <2>1, <2>2, <2>3, <2>4
<1> QED BY <1>1, <1>9, <1>11

LEMMA AppendEvidenceKeeps ==
  ASSUME Inv, NEW tr \in Traces, AppendEvidence(tr)
  PROVE  Inv'
<1>1. PICK S, d, ino, u, ev, b :
         /\ S = trace[tr] /\ d = saved[tr] /\ ino = inode[tr] /\ u = run[tr]
         /\ ev = evidence' /\ b = EvidenceBatch(tr)
  OBVIOUS
<1>2. /\ Ordered(S) /\ SavedOk(tr, S, d, ino) /\ RunOk(tr, S, d, u, ino) /\ ino \in Nat
      /\ d \in Saved /\ u \in Run /\ Logged(S, u, memberships)
      /\ EvidenceOut(tr, S, d, u, evidence.lines)
      /\ tr = Root => FeedOut(trace[Root], d, u, feed.lines)
      /\ ino \in 1 .. 1 + faults /\ faults \in 0 .. scene.faults /\ faults <= faults
  BY <1>1, Parts, Same
<1>3. PICK w : w = [u EXCEPT !.phase = "evidenced"]
  OBVIOUS
<1>4. /\ u.phase = "stamped" /\ faults' = faults /\ run' = [run EXCEPT ![tr] = w]
      /\ ev = AppendUnique(evidence, b)
      /\ UNCHANGED <<scene, now, trace, inode, memberships, saved, feed>>
  BY <1>1, <1>3 DEF AppendEvidence, Set
<1>5. evidence \in Files(Evidence) /\ feed \in Files(Turn)
  BY DEF Inv, Shape
<1>6. b \in Seq(Evidence)
  BY <1>1, <1>4, EvidenceStep
<1>7. /\ ev \in Files(Evidence) /\ EvidenceMore(evidence.lines, b, ev.lines)
      /\ Ids(b) \subseteq Ids(ev.lines)
  BY <1>4, <1>5, <1>6, EvidenceAppended
<1>8. /\ FeedOk(trace[Root], memberships, feed.lines, ev.lines)
      /\ \A e \in Items(ev.lines) :
            EvidenceStamped(e, memberships) /\ \E y \in Traces : From(y, trace[y], e)
      /\ Ids(evidence.lines) \subseteq Ids(ev.lines)
      /\ Backed(tr, S, u.offset, ev.lines)
  BY <1>1, <1>4, <1>7, EvidenceStep
<1>9. /\ w \in Run /\ w.phase = "evidenced" /\ w.offset = u.offset
      /\ w.normalizer = u.normalizer /\ w.inode = u.inode /\ w.resume = u.resume /\ w.log = u.log
  BY <1>2, <1>3 DEF Run, Phases
<1>10. RunOk(tr, S, d, w, ino)
  <2>1. Base(d, w) = Base(d, u)
    BY <1>9 DEF Base
  <2> QED BY <1>2, <1>4, <1>9, <2>1 DEF RunOk, HasRead
<1>11. Logged(S, w, memberships)
  BY <1>2, <1>4, <1>9 DEF Logged, HasStamped
<1>12. EvidenceOut(tr, S, d, w, ev.lines)
  BY <1>2, <1>8, <1>9 DEF EvidenceOut, Backed
<1>13. tr = Root => FeedOut(trace[Root], d, w, feed.lines)
  BY <1>2, <1>9 DEF FeedOut
<1>14. inode' = [inode EXCEPT ![tr] = ino] /\ saved' = [saved EXCEPT ![tr] = d]
  BY <1>1, <1>4, Same
<1>15. /\ SavedOk(tr, trace[tr], d, ino) /\ RunOk(tr, trace[tr], d, w, ino)
       /\ Logged(trace[tr], w, memberships)
       /\ EvidenceOut(tr, trace[tr], d, w, ev.lines) /\ evidence' = ev /\ feed' = feed
       /\ DOMAIN feed.lines \subseteq DOMAIN feed.lines
  BY <1>1, <1>2, <1>4, <1>10, <1>11, <1>12
<1> QED BY <1>2, <1>4, <1>5, <1>7, <1>8, <1>9, <1>13, <1>14, <1>15, Runs


LEMMA FeedAppended ==
  ASSUME NEW f \in Seq(Turn), Distinct(f), NEW file \in Files(Turn), Follows(file.lines, f, 0),
         NEW p \in Nat, Reaches(file.lines, p), NEW b \in Seq(Turn), Follows(b, f, p)
  PROVE  /\ AppendUnique(file, b) \in Files(Turn)
         /\ FeedMore(f, file.lines, b, AppendUnique(file, b).lines)
         /\ Reaches(AppendUnique(file, b).lines, p + Len(b))
         /\ \A file2 \in AppendInterrupted(file, b) :
               file2 \in Files(Turn) /\ FeedMore(f, file.lines, b, file2.lines)
<1>1. PICK lines, g : lines = file.lines /\ g = New(file, b)
  OBVIOUS
<1>2. lines \in Seq(Turn) /\ g = Fresh(Ids(lines), b, Len(b)) /\ g \in Seq(Turn)
  BY <1>1, NewIs DEF Files, New
<1>3. Follows(lines, f, 0) /\ Reaches(lines, p)
  BY <1>1
<1>4. \A h, i, j : /\ h = Fresh(Ids(lines), b, Len(b)) /\ i \in 0 .. Len(h)
                   /\ j = lines \o SubSeq(h, 1, i)
                   => FeedMore(f, lines, b, j) /\ (i = Len(h) => Reaches(j, p + Len(b)))
  <2>1. lines \in Seq(Turn)
    BY <1>2
  <2> QED BY <1>3, <2>1, FeedGrows, Zenon
<1>5. ASSUME NEW k \in 0 .. Len(g), NEW l, l = lines \o SubSeq(g, 1, k)
      PROVE  FeedMore(f, lines, b, l) /\ (k = Len(g) => Reaches(l, p + Len(b)))
  <2>1. g = Fresh(Ids(lines), b, Len(b))
    BY <1>2
  <2>2. k \in 0 .. Len(g) /\ l = lines \o SubSeq(g, 1, k)
    BY <1>5
  <2> QED BY <1>4, <2>1, <2>2, Zenon
<1>6. PICK l : l = AppendUnique(file, b).lines
  OBVIOUS
<1>7. AppendUnique(file, b) \in Files(Turn) /\ l = lines \o g
  BY <1>1, <1>6, AppendUniqueIs, Zenon
<1>8. SubSeq(g, 1, Len(g)) = g /\ Len(g) \in 0 .. Len(g)
  BY <1>2, WholeSubSeq
<1>9. l = lines \o SubSeq(g, 1, Len(g))
  BY <1>7, <1>8, Zenon
<1>10. FeedMore(f, lines, b, l) /\ Reaches(l, p + Len(b))
  BY <1>5, <1>8, <1>9, Zenon
<1>11. ASSUME NEW file2 \in AppendInterrupted(file, b)
       PROVE  file2 \in Files(Turn) /\ FeedMore(f, lines, b, file2.lines)
  <2>1. PICK h : h = file2.lines
    OBVIOUS
  <2>2. file2 \in Files(Turn) /\ \E k \in 0 .. Len(g) : h = lines \o SubSeq(g, 1, k)
    BY <1>1, <2>1, AppendInterruptedIs, Zenon
  <2>3. FeedMore(f, lines, b, h)
    BY <1>5, <2>2, Zenon
  <2> QED BY <2>1, <2>2, <2>3, Zenon
<1> QED BY <1>1, <1>6, <1>7, <1>10, <1>11, Zenon

LEMMA BatchTurns ==
  ASSUME NEW S, NEW limit, NEW t, Written(S, limit, t), NEW k \in 0 .. Len(S),
         NEW F, F = Read(Root, S, k), NEW c \in Seq(Turn), Items(c) \subseteq Items(F.outTurns),
         NEW m \in Seq(Membership), NEW log \in Seq(Membership), Prefix(log, m),
         Before(S, k, m, Len(log)), NEW E, Backed(Root, S, k, E),
         NEW s, s = StampTurns(c, log)
  PROVE  s \in Seq(Turn) /\ \A x \in Items(s) : x.refs \subseteq Ids(E) /\ TurnStamped(x, m, S)
<1>1. /\ s \in Seq(Turn) /\ Len(s) = Len(c)
      /\ \A i \in 1 .. Len(c) : s[i] = Restamped(c[i], MembershipAt(log, c[i].started))
  BY StampTurnsIs
<1>2. DOMAIN s = DOMAIN c /\ DOMAIN c = 1 .. Len(c)
  BY <1>1
<1>3. Root \in Traces
  BY DEF Traces
<1>4. Ordered(S) /\ Knows(Root, S, k, F)
  BY <1>3, ReplayKnown DEF Written
<1>5. \A l \in 1 .. k : l \in DOMAIN S /\ S[l] \in Record /\ S[l].native <= S[l].at
  BY <1>4 DEF Ordered, Written
<1>6. ASSUME NEW i \in DOMAIN s PROVE s[i].refs \subseteq Ids(E) /\ TurnStamped(s[i], m, S)
  <2>1. PICK y, w, x : y = c[i] /\ w = MembershipAt(log, y.started) /\ x = s[i]
    OBVIOUS
  <2>2. y \in Turn /\ x = Restamped(y, w) /\ y \in Items(F.outTurns)
    <3>1. i \in DOMAIN c /\ y \in Items(c)
      BY <1>2, <2>1 DEF Items
    <3>2. y \in Turn
      BY <1>2, <2>1, <3>1
    <3>3. x = Restamped(y, w)
      BY <1>1, <1>2, <2>1, <3>1
    <3> QED BY <3>1, <3>2, <3>3
  <2>3. /\ x.id = y.id /\ x.refs = y.refs /\ x.started = y.started /\ x.workstream = w
    <3>1. /\ Restamped(y, w).id = y.id /\ Restamped(y, w).refs = y.refs
          /\ Restamped(y, w).started = y.started /\ Restamped(y, w).workstream = w
      BY <2>2, RestampedIs
    <3> QED BY <2>2, <3>1, Zenon
  <2>4. PICK z \in DOMAIN F.turns :
          /\ F.turns[z].emitted /\ y.id = <<Root, z>>
          /\ y.started = F.turns[z].started /\ y.refs \subseteq Ids(F.outEvidence)
    BY <1>4, <2>2 DEF Knows, KnowsEnded, Items
  <2>5. PICK a \in 1 .. k : IsStart(S, a, z) /\ F.turns[z].started = S[a].native
    BY <1>4, <2>4 DEF Knows, KnowsTurns
  <2>6. PICK e \in 1 .. k : IsEnd(S, e, z)
    BY <1>4, <2>4 DEF Knows, KnowsTurns
  <2>7. x.refs \subseteq Ids(E)
    <3>1. \A h \in DOMAIN F.outEvidence : F.outEvidence[h].id \in Ids(E)
      BY DEF Backed, Routed, Items
    <3> QED BY <2>3, <2>4, <3>1 DEF Ids
  <2>8. ASSUME NEW j \in Len(log) + 1 .. Len(m)
        PROVE  /\ x.started < m[j].made
               /\ x.id = <<Root, m[j].turn>> => EndedIn(S, m[j].turn, m[j].made)
    <3>1. PICK q, v, n : q = S[a].native /\ v = S[a].at /\ n = m[j].made
      OBVIOUS
    <3>2. q \in Nat /\ v \in Nat /\ q <= v
      BY <1>5, <3>1 DEF Record
    <3>3. v < n
      BY <3>1 DEF Before
    <3>4. n \in Nat
      <4>1. j \in 1 .. Len(m)
        OBVIOUS
      <4>2. m[j] \in Membership
        BY <4>1
      <4> QED BY <3>1, <4>2 DEF Membership
    <3>5. q < n
      BY <3>2, <3>3, <3>4
    <3>6. EndedIn(S, z, m[j].made)
      <4>1. e \in DOMAIN S /\ S[e].at < m[j].made
        BY <1>5 DEF Before
      <4> QED BY <2>6, <4>1 DEF EndedIn
    <3>7. x.id = <<Root, m[j].turn>> => z = m[j].turn
      <4>1. PICK o : o = m[j].turn
        OBVIOUS
      <4>2. <<Root, z>> = <<Root, o>> => z = o
        OBVIOUS
      <4> QED BY <2>3, <2>4, <4>1, <4>2
    <3> QED BY <2>3, <2>4, <2>5, <3>1, <3>5, <3>6, <3>7
  <2>9. StampedBy(x.workstream, x.started, m, log)
    BY <2>1, <2>3, <2>8 DEF StampedBy
  <2>10. TurnStamped(x, m, S)
    BY <2>8, <2>9 DEF TurnStamped
  <2> QED BY <2>1, <2>7, <2>10
<1> QED BY <1>1, <1>6 DEF Items


LEMMA DistinctTurns ==
  ASSUME NEW S, Ordered(S), NEW k \in 0 .. Len(S), NEW f, f = Read(Root, S, k).outTurns
  PROVE  f \in Seq(Turn) /\ Distinct(f)
<1>1. Root \in Traces
  BY DEF Traces
<1>2. PICK n : n = Read(Root, S, k)
  OBVIOUS
<1>3. Knows(Root, S, k, n) /\ f = n.outTurns
  BY <1>1, <1>2, ReplayKnown
<1>4. f \in Seq(Turn)
  BY <1>3 DEF Knows, Normalizer
<1>5. \A i, j \in DOMAIN f : f[i].id = f[j].id => i = j
  BY <1>3 DEF Knows, KnowsEnded
<1>6. DOMAIN f = 1 .. Len(f)
  BY <1>4
<1>7. Distinct(f)
  BY <1>5, <1>6 DEF Distinct
<1> QED BY <1>4, <1>7

LEMMA NoTurns ==
  ASSUME NEW tr, tr # Root, NEW n, NEW log \in Seq(Membership)
  PROVE  StampTurns(RouteTurns(tr, n), log) = <<>>
<1>1. RouteTurns(tr, n) = <<>> /\ <<>> \in Seq(Turn) /\ Len(<<>>) = 0
  BY DEF RouteTurns
<1>2. PICK s : s = StampTurns(<<>>, log)
  OBVIOUS
<1>3. s \in Seq(Turn) /\ Len(s) = 0
  BY <1>1, <1>2, StampTurnsIs
<1>4. s = <<>>
  BY <1>3
<1> QED BY <1>1, <1>2, <1>4

(* Of lines that reach the end of a, then of c, no turn is missing. *)
LEMMA ReachesAll ==
  ASSUME NEW a \in Seq(Turn), NEW c \in Seq(Turn), NEW l \in Seq(Turn), NEW n,
         n = Len(c), Reaches(l, Len(a) + n)
  PROVE  DOMAIN (a \o c) \subseteq DOMAIN l
<1>1. PICK g : g = a \o c
  OBVIOUS
<1>2. g \in Seq(Turn) /\ Len(g) = Len(a) + Len(c)
  BY <1>1, ConcatIs
<1>3. DOMAIN g = 1 .. Len(a) + Len(c) /\ DOMAIN l = 1 .. Len(l) /\ Len(a) + Len(c) <= Len(l)
  BY <1>2 DEF Reaches
<1> QED BY <1>1, <1>3

LEMMA ReachesStart ==
  ASSUME NEW a \in Seq(Turn), NEW c \in Seq(Turn), NEW l \in Seq(Turn), NEW g, g = a \o c,
         DOMAIN g \subseteq DOMAIN l
  PROVE  Reaches(l, Len(a))
<1>1. g \in Seq(Turn) /\ Len(g) = Len(a) + Len(c)
  BY ConcatIs
<1>2. Len(g) <= Len(l)
  <2>1. DOMAIN g = 1 .. Len(g) /\ DOMAIN l = 1 .. Len(l) /\ Len(g) \in Nat /\ Len(l) \in Nat
    BY <1>1
  <2>2. Len(g) = 0 \/ Len(g) \in DOMAIN g
    BY <2>1
  <2> QED BY <2>1, <2>2
<1> QED BY <1>1, <1>2 DEF Reaches

LEMMA FeedStep ==
  ASSUME Inv, NEW u, u = run[Root], u.phase = "evidenced",
         NEW b, b = TurnBatch(Root), NEW S, S = trace[Root],
         NEW E, E = evidence.lines, NEW L, L = feed.lines,
         NEW f, f = Read(Root, S, Len(S)).outTurns
  PROVE  /\ b \in Seq(Turn) /\ f \in Seq(Turn) /\ Distinct(f) /\ Follows(L, f, 0)
         /\ \E p \in Nat :
               /\ Reaches(L, p) /\ Follows(b, f, p)
               /\ \A l : FeedMore(f, L, b, l) =>
                     /\ FeedOk(S, memberships, l, E) /\ DOMAIN L \subseteq DOMAIN l
                     /\ Reaches(l, p + Len(b)) => Out(S, u.offset, l)
<1>1. PICK d, m, M, log, k :
         /\ d = saved[Root] /\ m = memberships /\ M = u.normalizer /\ log = u.log /\ k = u.offset
  OBVIOUS
<1>2. u.phase \in HasRead /\ u.phase \in HasStamped /\ Root \in Traces
  BY DEF HasRead, HasStamped, Traces
<1>3. PICK B, F : B = Read(Root, S, Base(d, u)) /\ F = Read(Root, S, k)
  OBVIOUS
<1>4. /\ M \in Normalizer /\ k \in 0 .. Len(S) /\ B \in Normalizer /\ F \in Normalizer
      /\ Base(d, u) \in 0 .. Len(S) /\ d.offset \in Base(d, u) .. Len(S)
      /\ Resumes(B, M, F)
  BY <1>1, <1>2, <1>3, RunReads
<1>5. /\ Written(S, scene.records[Root], now) /\ Ordered(S) /\ u \in Run
      /\ Logged(S, u, m) /\ EvidenceOut(Root, S, d, u, E)
      /\ FeedOut(S, d, u, L) /\ FeedOk(S, m, L, E)
  BY <1>1, <1>2, Parts, Same DEF Inv
<1>6. /\ m \in Seq(Membership) /\ log \in Seq(Membership) /\ Prefix(log, m)
      /\ Before(S, k, m, Len(log)) /\ Backed(Root, S, k, E)
  BY <1>1, <1>2, <1>5, MembershipsType DEF Logged, Run, EvidenceOut
<1>7. PICK a, c, g : a = B.outTurns /\ c = M.outTurns /\ g = F.outTurns
  OBVIOUS
<1>8. a \in Seq(Turn) /\ c \in Seq(Turn) /\ g \in Seq(Turn) /\ g = a \o c
  <2>1. g = a \o c
    BY <1>4, <1>7, Zenon DEF Resumes
  <2> QED BY <1>4, <1>7, <2>1 DEF Normalizer
<1>9. b = StampTurns(c, log)
  BY <1>1, <1>7 DEF TurnBatch, RouteTurns
<1>10. b \in Seq(Turn) /\ Len(b) = Len(c)
  BY <1>6, <1>8, <1>9, StampTurnsIs
<1>11. \A x \in Items(b) : x.refs \subseteq Ids(E) /\ TurnStamped(x, m, S)
  <2>1. Items(c) \subseteq Items(g)
    BY <1>8, ItemsConcat
  <2>2. Items(c) \subseteq Items(F.outTurns)
    BY <1>7, <2>1
  <2> QED BY <1>3, <1>4, <1>5, <1>6, <1>8, <1>9, <2>2, BatchTurns
<1>12. Len(S) \in Nat /\ Len(S) \in 0 .. Len(S) /\ Len(S) \in k .. Len(S)
  BY <1>4, <1>5 DEF Ordered
<1>13. f \in Seq(Turn) /\ Distinct(f)
  BY <1>5, <1>12, DistinctTurns
<1>14. PICK p \in Nat : p = Len(a)
  BY <1>8
<1>15. Follows(b, f, p)
  <2>1. Follows(b, a \o c, Len(a))
    BY <1>6, <1>8, <1>9, BatchFollows
  <2>2. Follows(b, g, p)
    BY <1>8, <1>14, <2>1, Zenon
  <2>3. Extends(f, g)
    BY <1>2, <1>3, <1>4, <1>5, <1>7, <1>12, TurnsGrow
  <2>4. PICK h \in Seq(Turn) : f = g \o h
    BY <2>3 DEF Extends
  <2>5. Follows(b, g \o h, p)
    BY <1>8, <1>10, <2>2, FollowsMore
  <2> QED BY <2>4, <2>5, Zenon
<1>16. L \in Seq(Turn) /\ Follows(L, f, 0)
  BY <1>5 DEF FeedOk
<1>17. Reaches(L, p)
  <2>1. PICK e : e = Read(Root, S, d.offset).outTurns
    OBVIOUS
  <2>2. Extends(e, a) /\ DOMAIN e \subseteq DOMAIN L
    BY <1>2, <1>3, <1>4, <1>5, <1>7, <2>1, TurnsGrow DEF FeedOut, Out
  <2>3. PICK h \in Seq(Turn) : e = a \o h
    BY <2>2 DEF Extends
  <2>4. Reaches(L, Len(a))
    BY <1>8, <1>16, <2>2, <2>3, ReachesStart, Zenon
  <2> QED BY <1>14, <2>4
<1>18. ASSUME NEW l, FeedMore(f, L, b, l)
       PROVE  /\ FeedOk(S, m, l, E) /\ DOMAIN L \subseteq DOMAIN l
              /\ Reaches(l, p + Len(b)) => Out(S, k, l)
  <2>1. /\ l \in Seq(Turn) /\ Follows(l, f, 0) /\ DOMAIN L \subseteq DOMAIN l
        /\ Items(l) \subseteq Items(L) \union Items(b)
    BY <1>18 DEF FeedMore
  <2>2. \A x \in Items(l) : x.refs \subseteq Ids(E) /\ TurnStamped(x, m, S)
    BY <1>5, <1>11, <2>1 DEF FeedOk
  <2>3. FeedOk(S, m, l, E)
    BY <2>1, <2>2 DEF FeedOk
  <2>4. ASSUME Reaches(l, p + Len(b)) PROVE Out(S, k, l)
    <3>1. Reaches(l, Len(a) + Len(b))
      BY <1>14, <2>4
    <3>2. DOMAIN (a \o c) \subseteq DOMAIN l
      BY <1>8, <1>10, <2>1, <3>1, ReachesAll, Zenon
    <3>3. DOMAIN g \subseteq DOMAIN l
      BY <1>8, <3>2, Zenon
    <3> QED BY <1>3, <1>7, <3>3 DEF Out
  <2> QED BY <2>1, <2>3, <2>4
<1> QED BY <1>1, <1>10, <1>13, <1>15, <1>16, <1>17, <1>18


(* What an append of turns, whole or not, leaves in the feed. *)
LEMMA TurnsAppended ==
  ASSUME Inv, NEW tr \in Traces, NEW u, u = run[tr], u.phase = "evidenced"
  PROVE  /\ \A fd : fd = AppendUnique(feed, TurnBatch(tr)) \/
                    fd \in AppendInterrupted(feed, TurnBatch(tr)) =>
               /\ fd \in Files(Turn) /\ DOMAIN feed.lines \subseteq DOMAIN fd.lines
               /\ FeedOk(trace[Root], memberships, fd.lines, evidence.lines)
         /\ tr = Root => Out(trace[Root], u.offset, AppendUnique(feed, TurnBatch(tr)).lines)
<1>1. feed \in Files(Turn) /\ FeedOk(trace[Root], memberships, feed.lines, evidence.lines)
  BY DEF Inv, Shape
<1>2. CASE tr # Root
  <2>1. u.log \in Seq(Membership)
    BY Parts DEF Run
  <2>2. TurnBatch(tr) = <<>>
    BY <1>2, <2>1, NoTurns DEF TurnBatch
  <2>3. AppendUnique(feed, TurnBatch(tr)) = feed /\ AppendInterrupted(feed, TurnBatch(tr)) = {feed}
    BY <2>2 DEF AppendUnique, AppendInterrupted
  <2> QED BY <1>1, <1>2, <2>3
<1>3. CASE tr = Root
  <2>1. PICK b, S, E, L, f : /\ b = TurnBatch(Root) /\ S = trace[Root] /\ E = evidence.lines
                             /\ L = feed.lines /\ f = Read(Root, S, Len(S)).outTurns
    OBVIOUS
  <2>2. b \in Seq(Turn) /\ f \in Seq(Turn) /\ Distinct(f) /\ Follows(L, f, 0)
    BY <1>3, <2>1, FeedStep
  <2>3. PICK p \in Nat :
            /\ Reaches(L, p) /\ Follows(b, f, p)
            /\ \A l : FeedMore(f, L, b, l) =>
                  /\ FeedOk(S, memberships, l, E) /\ DOMAIN L \subseteq DOMAIN l
                  /\ Reaches(l, p + Len(b)) => Out(S, u.offset, l)
    BY <1>3, <2>1, FeedStep
  <2>4. /\ AppendUnique(feed, b) \in Files(Turn)
        /\ FeedMore(f, L, b, AppendUnique(feed, b).lines)
        /\ Reaches(AppendUnique(feed, b).lines, p + Len(b))
        /\ \A file2 \in AppendInterrupted(feed, b) :
              file2 \in Files(Turn) /\ FeedMore(f, L, b, file2.lines)
    <3>1. Follows(feed.lines, f, 0) /\ Reaches(feed.lines, p)
      BY <2>1, <2>2, <2>3
    <3>2. /\ AppendUnique(feed, b) \in Files(Turn)
          /\ FeedMore(f, feed.lines, b, AppendUnique(feed, b).lines)
          /\ Reaches(AppendUnique(feed, b).lines, p + Len(b))
          /\ \A file2 \in AppendInterrupted(feed, b) :
                file2 \in Files(Turn) /\ FeedMore(f, feed.lines, b, file2.lines)
      BY <1>1, <2>2, <2>3, <3>1, FeedAppended, Zenon
    <3> QED BY <2>1, <3>2, Zenon
  <2>5. ASSUME NEW fd, fd = AppendUnique(feed, b) \/ fd \in AppendInterrupted(feed, b)
        PROVE  fd \in Files(Turn) /\ FeedMore(f, L, b, fd.lines)
    BY <2>4, <2>5, Zenon
  <2>6. Out(S, u.offset, AppendUnique(feed, b).lines)
    BY <2>3, <2>4, Zenon
  <2>7. ASSUME NEW fd, fd = AppendUnique(feed, b) \/ fd \in AppendInterrupted(feed, b)
        PROVE  FeedOk(S, memberships, fd.lines, E) /\ DOMAIN L \subseteq DOMAIN fd.lines
    BY <2>3, <2>5, <2>7, Zenon
  <2> QED BY <1>3, <2>1, <2>5, <2>6, <2>7, Zenon
<1> QED BY <1>2, <1>3

LEMMA AppendTurnsKeeps ==
  ASSUME Inv, NEW tr \in Traces, AppendTurns(tr)
  PROVE  Inv'
<1>1. PICK S, d, ino, u, fd, b :
         /\ S = trace[tr] /\ d = saved[tr] /\ ino = inode[tr] /\ u = run[tr]
         /\ fd = feed' /\ b = TurnBatch(tr)
  OBVIOUS
<1>2. /\ Ordered(S) /\ SavedOk(tr, S, d, ino) /\ RunOk(tr, S, d, u, ino) /\ ino \in Nat
      /\ d \in Saved /\ u \in Run /\ Logged(S, u, memberships)
      /\ EvidenceOut(tr, S, d, u, evidence.lines)
      /\ tr = Root => FeedOut(trace[Root], d, u, feed.lines)
      /\ ino \in 1 .. 1 + faults /\ faults \in 0 .. scene.faults /\ faults <= faults
  BY <1>1, Parts, Same
<1>3. PICK w : w = [u EXCEPT !.phase = "published"]
  OBVIOUS
<1>4. /\ u.phase = "evidenced" /\ faults' = faults /\ run' = [run EXCEPT ![tr] = w]
      /\ fd = AppendUnique(feed, b)
      /\ UNCHANGED <<scene, now, trace, inode, memberships, saved, evidence>>
  BY <1>1, <1>3 DEF AppendTurns, Set
<1>5. evidence \in Files(Evidence) /\ feed \in Files(Turn)
  BY DEF Inv, Shape
<1>6. /\ fd \in Files(Turn) /\ DOMAIN feed.lines \subseteq DOMAIN fd.lines
      /\ FeedOk(trace[Root], memberships, fd.lines, evidence.lines)
      /\ tr = Root => Out(trace[Root], u.offset, fd.lines)
  BY <1>1, <1>4, TurnsAppended
<1>7. /\ w \in Run /\ w.phase = "published" /\ w.offset = u.offset
      /\ w.normalizer = u.normalizer /\ w.inode = u.inode /\ w.resume = u.resume /\ w.log = u.log
  BY <1>2, <1>3 DEF Run, Phases
<1>8. RunOk(tr, S, d, w, ino)
  <2>1. Base(d, w) = Base(d, u)
    BY <1>7 DEF Base
  <2> QED BY <1>2, <1>4, <1>7, <2>1 DEF RunOk, HasRead
<1>9. Logged(S, w, memberships)
  BY <1>2, <1>4, <1>7 DEF Logged, HasStamped
<1>10. EvidenceOut(tr, S, d, w, evidence.lines)
  BY <1>2, <1>4, <1>7 DEF EvidenceOut
<1>11. tr = Root => FeedOut(trace[Root], d, w, fd.lines)
  <2>1. SUFFICES ASSUME tr = Root PROVE FeedOut(trace[Root], d, w, fd.lines)
    OBVIOUS
  <2>2. Out(trace[Root], d.offset, fd.lines)
    BY <1>2, <1>6, <2>1 DEF FeedOut, Out
  <2> QED BY <1>6, <1>7, <2>1, <2>2 DEF FeedOut
<1>12. inode' = [inode EXCEPT ![tr] = ino] /\ saved' = [saved EXCEPT ![tr] = d]
  BY <1>1, <1>4, Same
<1>13. \A e \in Items(evidence.lines) :
          EvidenceStamped(e, memberships) /\ \E y \in Traces : From(y, trace[y], e)
  BY DEF Inv, EvidenceOk
<1>14. /\ SavedOk(tr, trace[tr], d, ino) /\ RunOk(tr, trace[tr], d, w, ino)
       /\ Logged(trace[tr], w, memberships)
       /\ EvidenceOut(tr, trace[tr], d, w, evidence.lines) /\ evidence' = evidence /\ feed' = fd
       /\ Ids(evidence.lines) \subseteq Ids(evidence.lines)
  BY <1>1, <1>2, <1>4, <1>8, <1>9, <1>10
<1> QED BY <1>2, <1>4, <1>5, <1>6, <1>7, <1>11, <1>12, <1>13, <1>14, Runs

LEMMA CrashKeeps ==
  ASSUME Inv, NEW tr \in Traces, Crash(tr)
  PROVE  Inv'
<1>1. PICK S, d, ino, u, f : /\ S = trace[tr] /\ d = saved[tr] /\ ino = inode[tr] /\ u = run[tr]
                             /\ f = faults + 1
  OBVIOUS
<1>2. /\ faults < scene.faults /\ faults' = f /\ run' = [run EXCEPT ![tr] = Idle]
      /\ UNCHANGED <<scene, now, trace, inode, memberships, saved>>
      /\ u.phase = "stamped" => evidence' \in AppendInterrupted(evidence, EvidenceBatch(tr))
      /\ u.phase # "stamped" => evidence' = evidence
      /\ u.phase = "evidenced" => feed' \in AppendInterrupted(feed, TurnBatch(tr))
      /\ u.phase # "evidenced" => feed' = feed
  BY <1>1 DEF Crash, Set
<1>3. /\ SavedOk(tr, S, d, ino) /\ ino \in Nat /\ d \in Saved
      /\ EvidenceOut(tr, S, d, u, evidence.lines)
      /\ tr = Root => FeedOut(trace[Root], d, u, feed.lines)
      /\ ino \in 1 .. 1 + faults /\ faults \in Nat /\ scene.faults \in Nat
  BY <1>1, Parts, Same
<1>4. f \in 0 .. scene.faults /\ faults <= f /\ ino \in 1 .. 1 + f
  BY <1>1, <1>2, <1>3
<1>5. evidence \in Files(Evidence) /\ feed \in Files(Turn)
  BY DEF Inv, Shape
<1>6. /\ FeedOk(trace[Root], memberships, feed.lines, evidence.lines)
      /\ \A e \in Items(evidence.lines) :
            EvidenceStamped(e, memberships) /\ \E y \in Traces : From(y, trace[y], e)
  BY DEF Inv, EvidenceOk
<1>7. PICK ev, fd : ev = evidence' /\ fd = feed'
  OBVIOUS
<1>8. /\ ev \in Files(Evidence) /\ fd \in Files(Turn)
      /\ Ids(evidence.lines) \subseteq Ids(ev.lines) /\ DOMAIN feed.lines \subseteq DOMAIN fd.lines
      /\ FeedOk(trace[Root], memberships, fd.lines, ev.lines)
      /\ \A e \in Items(ev.lines) :
            EvidenceStamped(e, memberships) /\ \E y \in Traces : From(y, trace[y], e)
  <2>1. CASE u.phase = "stamped"
    <3>1. ev \in AppendInterrupted(evidence, EvidenceBatch(tr)) /\ fd = feed
      BY <1>2, <1>7, <2>1
    <3>2. EvidenceBatch(tr) \in Seq(Evidence)
      BY <1>1, <2>1, EvidenceStep
    <3>3. ev \in Files(Evidence) /\ EvidenceMore(evidence.lines, EvidenceBatch(tr), ev.lines)
      BY <1>5, <3>1, <3>2, EvidenceAppended
    <3>4. /\ FeedOk(trace[Root], memberships, feed.lines, ev.lines)
          /\ \A e \in Items(ev.lines) :
                EvidenceStamped(e, memberships) /\ \E y \in Traces : From(y, trace[y], e)
          /\ Ids(evidence.lines) \subseteq Ids(ev.lines)
      BY <1>1, <2>1, <3>3, EvidenceStep
    <3> QED BY <1>5, <3>1, <3>3, <3>4
  <2>2. CASE u.phase = "evidenced"
    <3>1. fd \in AppendInterrupted(feed, TurnBatch(tr)) /\ ev = evidence
      BY <1>2, <1>7, <2>2
    <3>2. /\ fd \in Files(Turn) /\ DOMAIN feed.lines \subseteq DOMAIN fd.lines
          /\ FeedOk(trace[Root], memberships, fd.lines, evidence.lines)
      BY <1>1, <2>2, <3>1, TurnsAppended
    <3> QED BY <1>5, <1>6, <3>1, <3>2
  <2>3. CASE u.phase # "stamped" /\ u.phase # "evidenced"
    BY <1>2, <1>5, <1>6, <1>7, <2>3
  <2> QED BY <2>1, <2>2, <2>3
<1>9. Idle.phase \notin HasRead
  BY IdleIs DEF HasRead
<1>10. /\ RunOk(tr, S, d, Idle, ino) /\ Logged(S, Idle, memberships)
       /\ \A E : Backed(tr, S, d.offset, E) => EvidenceOut(tr, S, d, Idle, E)
       /\ \A L : Out(S, d.offset, L) => FeedOut(S, d, Idle, L)
  BY <1>9, IdleIs, YoungRun, MembershipsType
<1>11. EvidenceOut(tr, S, d, Idle, ev.lines)
  <2>1. Backed(tr, S, d.offset, evidence.lines)
    BY <1>3 DEF EvidenceOut
  <2>2. Backed(tr, S, d.offset, ev.lines)
    BY <1>8, <2>1 DEF Backed
  <2> QED BY <1>10, <2>2
<1>12. tr = Root => FeedOut(trace[Root], d, Idle, fd.lines)
  <2>1. SUFFICES ASSUME tr = Root PROVE FeedOut(S, d, Idle, fd.lines)
    BY <1>1
  <2>2. Out(S, d.offset, fd.lines)
    BY <1>1, <1>3, <1>8, <2>1 DEF FeedOut, Out
  <2> QED BY <1>10, <2>2
<1>13. inode' = [inode EXCEPT ![tr] = ino] /\ saved' = [saved EXCEPT ![tr] = d]
  BY <1>1, <1>2, Same
<1>14. /\ SavedOk(tr, trace[tr], d, ino) /\ RunOk(tr, trace[tr], d, Idle, ino)
       /\ Logged(trace[tr], Idle, memberships)
       /\ EvidenceOut(tr, trace[tr], d, Idle, ev.lines)
  BY <1>1, <1>3, <1>10, <1>11
<1>15. UNCHANGED <<scene, now, trace, memberships>> /\ evidence' = ev /\ feed' = fd
  BY <1>2, <1>7
<1> QED BY <1>2, <1>3, <1>4, <1>8, <1>12, <1>13, <1>14, <1>15, IdleIs, Runs


-----------------------------------------------------------------------------
(* The moves *)

LEMMA MoveIs ==
  ASSUME NEW m \in Seq(Membership), NEW y \in Membership, NEW n, n = Append(m, y)
  PROVE  /\ n \in Seq(Membership) /\ Len(n) = Len(m) + 1 /\ n[Len(m) + 1] = y /\ Len(m) \in Nat
         /\ \A i \in 1 .. Len(m) : n[i] = m[i]
         /\ \A i \in 1 .. Len(n) : i \in 1 .. Len(m) \/ i = Len(m) + 1
         /\ \A a \in Seq(Membership) : Prefix(a, m) => Prefix(a, n)
<1>1. /\ n \in Seq(Membership) /\ Len(n) = Len(m) + 1 /\ n[Len(m) + 1] = y /\ Len(m) \in Nat
      /\ \A i \in 1 .. Len(m) : n[i] = m[i]
  OBVIOUS
<1>2. \A i \in 1 .. Len(n) : i \in 1 .. Len(m) \/ i = Len(m) + 1
  BY <1>1
<1>3. ASSUME NEW a \in Seq(Membership), Prefix(a, m) PROVE Prefix(a, n)
  <2>1. Len(a) \in Nat /\ Len(a) <= Len(m) /\ \A i \in 1 .. Len(a) : a[i] = m[i]
    BY <1>3 DEF Prefix
  <2>2. Len(a) <= Len(n) /\ \A i \in 1 .. Len(a) : i \in 1 .. Len(m)
    BY <1>1, <2>1
  <2> HIDE DEF Membership
  <2> QED BY <1>1, <2>1, <2>2 DEF Prefix
<1> QED BY <1>1, <1>2, <1>3

(* Stamps given before a move are as good as before. *)
LEMMA StampsKept ==
  ASSUME NEW m \in Seq(Membership), NEW y \in Membership, NEW n, n = Append(m, y),
         NEW w, NEW t, t < y.made, NEW log, StampedBy(w, t, m, log)
  PROVE  StampedBy(w, t, n, log)
<1>1. /\ Len(n) = Len(m) + 1 /\ n[Len(m) + 1] = y
      /\ \A i \in 1 .. Len(m) : n[i] = m[i]
      /\ \A i \in 1 .. Len(n) : i \in 1 .. Len(m) \/ i = Len(m) + 1
  BY MoveIs
<1>2. log \in Seq(Membership) /\ Prefix(log, m) /\ w = MembershipAt(log, t)
  BY DEF StampedBy
<1>3. Prefix(log, n) /\ Len(log) \in Nat
  BY <1>2, MoveIs
<1>4. ASSUME NEW i \in Len(log) + 1 .. Len(n) PROVE t < n[i].made
  <2>1. i \in 1 .. Len(n)
    BY <1>3
  <2>2. CASE i \in 1 .. Len(m)
    <3>1. i \in Len(log) + 1 .. Len(m)
      BY <1>3, <2>2
    <3> QED BY <1>1, <2>2, <3>1 DEF StampedBy
  <2>3. CASE i = Len(m) + 1
    BY <1>1, <2>3
  <2> QED BY <1>1, <2>1, <2>2, <2>3
<1> QED BY <1>2, <1>3, <1>4 DEF StampedBy

LEMMA MovedMore ==
  ASSUME NEW S, Ordered(S), NEW t \in Nat, NEW m, Moved(m, S, t), NEW y \in Membership,
         y.from <= t, y.made = t, NEW n, n = Append(m, y),
         \A i \in 1 .. Len(m) : i = Len(m) => m[i].from < y.from,
         y.turn # NoTurn => \E p \in DOMAIN S :
            /\ IsStart(S, p, y.turn)
            /\ (\A i \in 1 .. Len(m) : i = Len(m) => m[i].from < S[p].native) =>
                  y.from = S[p].native
  PROVE  Moved(n, S, t + 1)
<1>1. m \in Seq(Membership) /\ Increasing(m)
  BY DEF Moved
<1>2. PICK l \in Nat : l = Len(m)
  BY <1>1
<1>3. /\ n \in Seq(Membership) /\ Len(n) = l + 1 /\ n[l + 1] = y
      /\ \A i \in 1 .. l : n[i] = m[i]
      /\ \A i \in 1 .. Len(n) : i \in 1 .. l \/ i = l + 1
  BY <1>1, <1>2, MoveIs
<1>4. ASSUME NEW i \in 1 .. l PROVE m[i].from \in Nat /\ m[i].made \in Nat /\ m[i].from < y.from
  <2>1. m[i] \in Membership /\ m[l] \in Membership
    BY <1>1, <1>2
  <2>2. m[i].from \in Nat /\ m[l].from \in Nat /\ y.from \in Nat /\ m[i].made \in Nat
    BY <2>1 DEF Membership
  <2>3. m[l].from < y.from
    BY <1>2
  <2>4. i = l \/ m[i].from < m[l].from
    <3>1. i = l \/ i < l
      BY <1>2
    <3> QED BY <1>1, <1>2, <3>1 DEF Increasing
  <2>5. PICK a, b, c : a = m[i].from /\ b = m[l].from /\ c = y.from
    OBVIOUS
  <2>6. a < c
    <3>1. a \in Nat /\ b \in Nat /\ c \in Nat /\ b < c /\ (a = b \/ a < b)
      BY <2>2, <2>3, <2>4, <2>5
    <3> QED BY <3>1
  <2> QED BY <2>2, <2>5, <2>6
<1>5. Increasing(n)
  <2>1. SUFFICES ASSUME NEW i \in 1 .. l + 1, NEW j \in 1 .. l + 1, i < j
                 PROVE  n[i].from < n[j].from
    BY <1>3 DEF Increasing
  <2>2. i \in 1 .. l /\ (j \in 1 .. l \/ j = l + 1)
    BY <2>1
  <2>3. CASE j \in 1 .. l
    BY <1>1, <1>2, <1>3, <2>1, <2>2, <2>3 DEF Increasing
  <2>4. CASE j = l + 1
    BY <1>3, <1>4, <2>2, <2>4
  <2> QED BY <2>2, <2>3, <2>4
<1>6. ASSUME NEW i \in 1 .. l + 1 PROVE n[i].from <= n[i].made /\ n[i].made < t + 1
  <2>1. CASE i \in 1 .. l
    <3>1. PICK a : a = m[i].made
      OBVIOUS
    <3>2. m[i].from <= m[i].made /\ a < t /\ a \in Nat
      BY <1>2, <1>4, <2>1, <3>1 DEF Moved
    <3>3. a < t + 1
      BY <3>2
    <3> QED BY <1>3, <2>1, <3>1, <3>2, <3>3
  <2>2. CASE i = l + 1
    <3>1. t < t + 1
      OBVIOUS
    <3> QED BY <1>3, <2>2, <3>1
  <2> QED BY <1>3, <2>1, <2>2
<1>7. ASSUME NEW i \in 1 .. l + 1, n[i].turn # NoTurn
      PROVE  \E p \in DOMAIN S :
                /\ IsStart(S, p, n[i].turn)
                /\ (i > 1 => n[i - 1].from < S[p].native) => n[i].from = S[p].native
  <2>1. CASE i \in 1 .. l
    <3>1. n[i] = m[i] /\ (i > 1 => n[i - 1] = m[i - 1])
      BY <1>3, <2>1
    <3>2. \E p \in DOMAIN S :
              /\ IsStart(S, p, m[i].turn)
              /\ (i > 1 => m[i - 1].from < S[p].native) => m[i].from = S[p].native
      BY <1>2, <1>7, <2>1, <3>1 DEF Moved
    <3> QED BY <3>1, <3>2
  <2>2. CASE i = l + 1
    <3>1. PICK p \in DOMAIN S :
              /\ IsStart(S, p, y.turn)
              /\ (\A h \in 1 .. l : h = l => m[h].from < S[p].native) => y.from = S[p].native
      BY <1>2, <1>3, <1>7, <2>2
    <3>2. ASSUME i > 1 => n[i - 1].from < S[p].native
          PROVE  \A h \in 1 .. l : h = l => m[h].from < S[p].native
      <4>1. SUFFICES ASSUME l \in 1 .. l PROVE m[l].from < S[p].native
        OBVIOUS
      <4>2. i > 1 /\ i - 1 = l /\ n[l] = m[l]
        BY <1>3, <2>2, <4>1
      <4> QED BY <3>2, <4>2
    <3> QED BY <1>3, <2>2, <3>1, <3>2
  <2> QED BY <1>3, <2>1, <2>2
<1>8. Len(n) = l + 1
  BY <1>3
<1> QED BY <1>3, <1>5, <1>6, <1>7, <1>8 DEF Moved

(* The turns of the feed ended in the root rollout, and started in the past. *)
LEMMA FeedPast ==
  ASSUME NEW S, NEW limit, NEW t \in Nat, Written(S, limit, t), NEW m, NEW L, NEW E,
         FeedOk(S, m, L, E), NEW x \in Items(L)
  PROVE  \E z \in Nat : /\ x.id = <<Root, z>>
                        /\ \E a \in DOMAIN S : IsStart(S, a, z) /\ x.started = S[a].native
                        /\ \E e \in DOMAIN S : IsEnd(S, e, z)
                        /\ x.started \in Nat /\ x.started < t
<1>1. PICK n : n = Read(Root, S, Len(S))
  OBVIOUS
<1>2. Ordered(S) /\ Len(S) \in 0 .. Len(S) /\ Root \in Traces /\ DOMAIN S = 1 .. Len(S)
  BY DEF Written, Ordered, Traces
<1>3. Knows(Root, S, Len(S), n)
  BY <1>1, <1>2, ReplayKnown
<1>4. PICK f : f = n.outTurns
  OBVIOUS
<1>5. f \in Seq(Turn) /\ L \in Seq(Turn) /\ Follows(L, f, 0) /\ 0 \in Nat /\ n.turns \in Builders
  BY <1>1, <1>3, <1>4 DEF FeedOk, Knows, Normalizer
<1>6. PICK i \in 1 .. Len(L) : x = L[i]
  <2>1. DOMAIN L = 1 .. Len(L)
    BY <1>5
  <2> QED BY <2>1 DEF Items
<1>7. 0 + i = i /\ i \in 1 .. Len(L)
  OBVIOUS
<1>8. i \in 1 .. Len(f) /\ x.id = f[i].id /\ x.started = f[i].started
  BY <1>5, <1>6, <1>7, FollowsIds
<1>9. i \in DOMAIN n.outTurns
  <2>1. DOMAIN f = 1 .. Len(f)
    BY <1>5
  <2> QED BY <1>4, <1>8, <2>1
<1>10. PICK z \in DOMAIN n.turns :
          n.turns[z].emitted /\ x.id = <<Root, z>> /\ x.started = n.turns[z].started
  BY <1>3, <1>4, <1>8, <1>9 DEF Knows, KnowsEnded
<1>11. z \in Nat
  BY <1>5, <1>10, BuildersAre
<1>12. PICK a \in DOMAIN S : IsStart(S, a, z) /\ n.turns[z].started = S[a].native
  BY <1>2, <1>3, <1>10 DEF Knows, KnowsTurns
<1>13. PICK e \in DOMAIN S : IsEnd(S, e, z)
  BY <1>2, <1>3, <1>10 DEF Knows, KnowsTurns
<1>14. x.started \in Nat /\ x.started < t
  <2>1. PICK q, v : q = S[a].native /\ v = S[a].at
    OBVIOUS
  <2>2. S[a] \in Record
    BY <1>2 DEF Ordered
  <2>3. q \in Nat /\ v \in Nat /\ q <= v /\ v < t
    BY <2>1, <2>2 DEF Record, Written
  <2>4. q < t
    BY <2>3
  <2> QED BY <1>10, <1>12, <2>1, <2>3, <2>4
<1> QED BY <1>10, <1>11, <1>12, <1>13, <1>14


(* A move comes after the lines there are, and their turns' ends. *)
LEMMA TimePasses ==
  ASSUME NEW S, NEW limit, NEW t \in Nat, Written(S, limit, t)
  PROVE  Written(S, limit, t + 1)
<1>1. Ordered(S) /\ S \in Seq(Record)
  BY DEF Written, Ordered
<1>2. ASSUME NEW j \in DOMAIN S PROVE S[j].at < t + 1
  <2>1. PICK a : a = S[j].at
    OBVIOUS
  <2>2. S[j] \in Record
    BY <1>1
  <2>3. a \in Nat /\ a < t
    BY <2>1, <2>2 DEF Record, Written
  <2>4. a < t + 1
    BY <2>3
  <2> QED BY <2>1, <2>4
<1> QED BY <1>2 DEF Written

LEMMA BeforeMore ==
  ASSUME NEW S, NEW limit, NEW t \in Nat, Written(S, limit, t),
         NEW m \in Seq(Membership), NEW y \in Membership, y.made = t, NEW n, n = Append(m, y),
         NEW k \in 0 .. Len(S), NEW l \in Nat, Before(S, k, m, l)
  PROVE  Before(S, k, n, l)
<1>1. /\ n[Len(m) + 1] = y /\ Len(m) \in Nat /\ Len(n) = Len(m) + 1
      /\ \A i \in 1 .. Len(m) : n[i] = m[i]
  BY MoveIs
<1>2. ASSUME NEW i \in l + 1 .. Len(n), NEW j \in 1 .. k
      PROVE  S[j].at < n[i].made
  <2>1. j \in DOMAIN S
    BY DEF Written, Ordered
  <2>2. CASE i <= Len(m)
    <3>1. i \in l + 1 .. Len(m) /\ i \in 1 .. Len(m)
      BY <1>1, <2>2
    <3> QED BY <1>1, <3>1 DEF Before
  <2>3. CASE ~(i <= Len(m))
    <3>1. i = Len(m) + 1
      BY <1>1, <2>3
    <3> QED BY <1>1, <2>1, <3>1 DEF Written
  <2> QED BY <2>2, <2>3
<1> QED BY <1>2 DEF Before

LEMMA LoggedMore ==
  ASSUME NEW S, NEW limit, NEW t \in Nat, Written(S, limit, t),
         NEW m \in Seq(Membership), NEW y \in Membership, y.made = t, NEW n, n = Append(m, y),
         NEW u \in Run, u.phase \in HasStamped => u.offset \in 0 .. Len(S), Logged(S, u, m)
  PROVE  Logged(S, u, n)
<1>1. PICK g, k : g = u.log /\ k = u.offset
  OBVIOUS
<1>2. g \in Seq(Membership)
  BY <1>1 DEF Run
<1>3. Prefix(g, m) /\ (u.phase \in HasStamped => Before(S, k, m, Len(g)))
  BY <1>1, Zenon DEF Logged
<1>4. Prefix(g, n) /\ Len(g) \in Nat
  BY <1>2, <1>3, MoveIs
<1>5. u.phase \in HasStamped => Before(S, k, n, Len(g))
  <2>1. SUFFICES ASSUME u.phase \in HasStamped PROVE Before(S, k, n, Len(g))
    OBVIOUS
  <2>2. k \in 0 .. Len(S)
    BY <1>1, <2>1
  <2>3. PICK l : l = Len(g)
    OBVIOUS
  <2>4. l \in Nat /\ Before(S, k, m, l)
    BY <1>3, <1>4, <2>1, <2>3
  <2>5. Before(S, k, n, l)
    BY <2>2, <2>4, BeforeMore
  <2> QED BY <2>3, <2>5
<1> QED BY <1>1, <1>4, <1>5, Zenon DEF Logged

LEMMA FeedMoved ==
  ASSUME NEW S, NEW limit, NEW t \in Nat, Written(S, limit, t),
         NEW m \in Seq(Membership), NEW y \in Membership, y.made = t, NEW n, n = Append(m, y),
         NEW L, NEW E, FeedOk(S, m, L, E)
  PROVE  FeedOk(S, n, L, E)
<1>1. /\ n[Len(m) + 1] = y /\ Len(m) \in Nat /\ Len(n) = Len(m) + 1
      /\ \A i \in 1 .. Len(m) : n[i] = m[i]
  BY MoveIs
<1>2. ASSUME NEW x \in Items(L) PROVE TurnStamped(x, n, S)
  <2>1. PICK z \in Nat : /\ x.id = <<Root, z>> /\ x.started < t
                         /\ \E e \in DOMAIN S : IsEnd(S, e, z)
    BY FeedPast
  <2>2. x.id = <<Root, y.turn>> => EndedIn(S, y.turn, y.made)
    <3>1. PICK o : o = y.turn
      OBVIOUS
    <3>2. <<Root, z>> = <<Root, o>> => z = o
      OBVIOUS
    <3>3. EndedIn(S, z, y.made)
      BY <2>1 DEF EndedIn, Written
    <3> QED BY <2>1, <3>1, <3>2, <3>3
  <2>3. PICK g : /\ StampedBy(x.workstream, x.started, m, g)
                 /\ \A i \in Len(g) + 1 .. Len(m) :
                       x.id = <<Root, m[i].turn>> => EndedIn(S, m[i].turn, m[i].made)
    BY DEF FeedOk, TurnStamped
  <2>4. PICK w, s : w = x.workstream /\ s = x.started
    OBVIOUS
  <2>5. StampedBy(w, s, n, g)
    BY <2>1, <2>3, <2>4, StampsKept
  <2>6. ASSUME NEW i \in Len(g) + 1 .. Len(n), x.id = <<Root, n[i].turn>>
        PROVE  EndedIn(S, n[i].turn, n[i].made)
    <3>1. g \in Seq(Membership)
      BY <2>5 DEF StampedBy
    <3>2. Len(g) \in Nat
      BY <3>1
    <3>3. CASE i <= Len(m)
      <4>1. i \in Len(g) + 1 .. Len(m) /\ i \in 1 .. Len(m)
        BY <1>1, <3>2, <3>3
      <4> QED BY <1>1, <2>3, <2>6, <4>1
    <3>4. CASE ~(i <= Len(m))
      <4>1. i = Len(m) + 1
        BY <1>1, <3>2, <3>4
      <4>2. n[i].turn = y.turn /\ n[i].made = y.made
        BY <1>1, <4>1
      <4> QED BY <2>2, <2>6, <4>2
    <3> QED BY <3>3, <3>4
  <2> QED BY <2>4, <2>5, <2>6 DEF TurnStamped
<1> QED BY <1>2 DEF FeedOk

LEMMA EvidenceMoved ==
  ASSUME NEW tr \in Traces, NEW S, NEW limit, NEW t \in Nat, Written(S, limit, t),
         NEW m \in Seq(Membership), NEW y \in Membership, y.made = t, NEW n, n = Append(m, y),
         NEW e, From(tr, S, e), EvidenceStamped(e, m)
  PROVE  EvidenceStamped(e, n)
<1>1. PICK x \in Routed(tr, Read(tr, S, Len(S))) : e = Restamped(x, e.workstream)
  BY DEF From
<1>2. Ordered(S) /\ Len(S) \in 0 .. Len(S) /\ DOMAIN S = 1 .. Len(S)
  BY DEF Written, Ordered
<1>3. x \in Evidence /\ \E l \in 1 .. Len(S) : x.at <= S[l].at
  BY <1>2, RoutedTimes
<1>4. PICK l \in 1 .. Len(S) : x.at <= S[l].at
  BY <1>3
<1>5. e.at = x.at
  <2>1. PICK w : w = e.workstream
    OBVIOUS
  <2>2. Restamped(x, w).at = x.at
    BY <1>3, RestampedIs
  <2>3. e = Restamped(x, w)
    BY <1>1, <2>1
  <2> QED BY <2>2, <2>3, Zenon
<1>6. PICK a, b : a = x.at /\ b = S[l].at
  OBVIOUS
<1>7. S[l] \in Record
  BY <1>2 DEF Ordered
<1>8. a \in Nat /\ b \in Nat /\ a <= b /\ b < t
  BY <1>2, <1>3, <1>4, <1>6, <1>7 DEF Evidence, Record, Written
<1>9. a < t
  BY <1>8
<1>10. PICK g, w, s : StampedBy(w, s, m, g) /\ w = e.workstream /\ s = e.at
  BY DEF EvidenceStamped
<1>11. StampedBy(w, s, n, g)
  BY <1>5, <1>6, <1>9, <1>10, StampsKept
<1> QED BY <1>10, <1>11 DEF EvidenceStamped


LEMMA FromIs ==
  ASSUME Moved(memberships, trace[Root], now), now \in Nat, NEW q \in Nat, q <= now
  PROVE  /\ MembershipFrom(q) \in Nat /\ MembershipFrom(q) <= now
         /\ \A i \in 1 .. Len(memberships) :
               i = Len(memberships) => memberships[i].from < MembershipFrom(q)
         /\ (\A i \in 1 .. Len(memberships) :
               i = Len(memberships) => memberships[i].from < q) => MembershipFrom(q) = q
<1>1. PICK m, l : m = memberships /\ l = Len(memberships)
  OBVIOUS
<1>2. m \in Seq(Membership) /\ l = Len(m)
  BY <1>1 DEF Moved
<1>3. CASE m = <<>>
  <2>1. l = 0 /\ MembershipFrom(q) = q
    BY <1>1, <1>2, <1>3 DEF MembershipFrom
  <2> QED BY <1>1, <2>1
<1>4. CASE m # <<>>
  <2>1. l \in 1 .. l /\ l \in Nat /\ m[l] \in Membership
    BY <1>2, <1>4
  <2>2. PICK a, b : a = m[l].from /\ b = m[l].made
    OBVIOUS
  <2>3. a \in Nat /\ b \in Nat /\ a <= b /\ b < now
    BY <1>1, <2>1, <2>2 DEF Membership, Moved
  <2>4. MembershipFrom(q) = IF q > a THEN q ELSE a + 1
    BY <1>1, <1>4, <2>2 DEF MembershipFrom, Last
  <2>5. PICK r : r = MembershipFrom(q)
    OBVIOUS
  <2>6. r \in Nat /\ r <= now /\ a < r /\ (a < q => r = q)
    BY <2>3, <2>4, <2>5
  <2> QED BY <1>1, <2>1, <2>2, <2>5, <2>6
<1> QED BY <1>3, <1>4

LEMMA Moves ==
  ASSUME Inv, NEW w \in Workstreams, NEW q \in Nat, q <= now, NEW x \in Nat \union {NoTurn},
         AppendMembership(w, q, x),
         x # NoTurn => \E p \in DOMAIN trace[Root] :
                          IsStart(trace[Root], p, x) /\ trace[Root][p].native = q
  PROVE  Inv'
<1>1. Shape /\ Root \in Traces
  BY SceneIs DEF Inv
<1>2. PICK t, m, S : t = now /\ m = memberships /\ S = trace[Root]
  OBVIOUS
<1>3. t \in Nat /\ Moved(m, S, t) /\ m \in Seq(Membership) /\ Written(S, scene.records[Root], t)
  BY <1>1, <1>2, Parts, MembershipsType DEF Inv, Shape
<1>4. PICK y : y = [workstream |-> w, from |-> MembershipFrom(q), made |-> t, turn |-> x]
  OBVIOUS
<1>5. PICK n : n = Append(m, y)
  OBVIOUS
<1>6. /\ memberships' = n /\ now' = t + 1
      /\ UNCHANGED <<scene, trace, inode, run, saved, evidence, feed, faults>>
  BY <1>2, <1>4, <1>5 DEF AppendMembership, files
<1>7. PICK f : f = MembershipFrom(q)
  OBVIOUS
<1>8. /\ f \in Nat /\ f <= t /\ \A i \in 1 .. Len(m) : i = Len(m) => m[i].from < f
      /\ (\A i \in 1 .. Len(m) : i = Len(m) => m[i].from < q) => f = q
  BY <1>1, <1>2, <1>3, <1>7, FromIs DEF Shape
<1>9. /\ y \in Membership /\ y.from = f /\ y.made = t /\ y.turn = x
  BY <1>3, <1>4, <1>7, <1>8 DEF Membership
<1>10. Moved(n, S, t + 1)
  <2>1. x # NoTurn => \E p \in DOMAIN S :
            /\ IsStart(S, p, x)
            /\ (\A i \in 1 .. Len(m) : i = Len(m) => m[i].from < S[p].native) => f = S[p].native
    <3>1. SUFFICES ASSUME x # NoTurn
                   PROVE  \E p \in DOMAIN S :
            /\ IsStart(S, p, x)
            /\ (\A i \in 1 .. Len(m) : i = Len(m) => m[i].from < S[p].native) => f = S[p].native
      OBVIOUS
    <3>2. PICK p \in DOMAIN S : IsStart(S, p, x) /\ S[p].native = q
      BY <1>2, <3>1
    <3> QED BY <1>8, <3>2
  <2>2. Ordered(S)
    BY <1>3 DEF Written
  <2> QED BY <1>3, <1>5, <1>8, <1>9, <2>1, <2>2, MovedMore
<1> HIDE DEF Traces
<1>12. ASSUME NEW tr \in Traces
       PROVE  Rollout(tr, trace[tr], scene.records[tr], t + 1, inode[tr],
                      saved[tr], run[tr], n, evidence.lines)
  <2>1. PICK R, u, lim : R = trace[tr] /\ u = run[tr] /\ lim = scene.records[tr]
    OBVIOUS
  <2>2. /\ Written(R, lim, t) /\ SavedOk(tr, R, saved[tr], inode[tr])
        /\ RunOk(tr, R, saved[tr], u, inode[tr]) /\ Logged(R, u, m) /\ u \in Run
        /\ EvidenceOut(tr, R, saved[tr], u, evidence.lines) /\ Ordered(R)
    BY <1>2, <2>1, Parts
  <2>3. Written(R, lim, t + 1)
    BY <1>3, <2>2, TimePasses
  <2>4. u.phase \in HasStamped => u.offset \in 0 .. Len(R)
    <3>1. u.phase \in HasStamped => u.phase \in HasRead
      BY DEF HasStamped, HasRead
    <3> QED BY <2>2, <3>1, OffsetIs
  <2>6. Logged(R, u, n)
    BY <1>3, <1>5, <1>9, <2>2, <2>4, LoggedMore
  <2> QED BY <2>1, <2>2, <2>3, <2>6 DEF Rollout
<1>13. FeedOk(S, n, feed.lines, evidence.lines)
  <2>1. PICK lim, L, E : lim = scene.records[Root] /\ L = feed.lines /\ E = evidence.lines
    OBVIOUS
  <2>2. FeedOk(S, m, L, E)
    BY <1>2, <2>1 DEF Inv
  <2>3. Written(S, lim, t) /\ m \in Seq(Membership) /\ t \in Nat
    BY <1>3, <2>1
  <2>4. FeedOk(S, n, L, E)
    BY <1>5, <1>9, <2>2, <2>3, FeedMoved
  <2> QED BY <2>1, <2>4, Zenon
<1>14. ASSUME NEW e \in Items(evidence.lines)
       PROVE  EvidenceStamped(e, n) /\ \E tr \in Traces : From(tr, trace[tr], e)
  <2>1. EvidenceStamped(e, m) /\ \E tr \in Traces : From(tr, trace[tr], e)
    BY <1>2 DEF Inv, EvidenceOk
  <2>2. PICK tr \in Traces : From(tr, trace[tr], e)
    BY <2>1
  <2>3. Written(trace[tr], scene.records[tr], t)
    BY <1>2, Parts
  <2>4. PICK R, lim : R = trace[tr] /\ lim = scene.records[tr]
    OBVIOUS
  <2>5. EvidenceStamped(e, n)
    BY <1>3, <1>5, <1>9, <2>1, <2>2, <2>3, <2>4, EvidenceMoved
  <2> QED BY <2>2, <2>5
<1>15. t + 1 \in Nat
  BY <1>3
<1>16. Shape' /\ EvidenceOk'
  BY <1>1, <1>6, <1>14, <1>15 DEF Shape, EvidenceOk
<1>17. Moved(memberships, trace[Root], now)'
  BY <1>2, <1>6, <1>10
<1>18. /\ FeedOut(trace[Root], saved[Root], run[Root], feed.lines)'
       /\ FeedOk(trace[Root], memberships, feed.lines, evidence.lines)'
  BY <1>2, <1>6, <1>13 DEF Inv
<1>19. \A tr \in Traces : Rollout(tr, trace[tr], scene.records[tr], now, inode[tr],
                                  saved[tr], run[tr], memberships, evidence.lines)'
  BY <1>6, <1>12
<1> QED BY <1>16, <1>17, <1>18, <1>19 DEF Inv

LEMMA MoveNowKeeps ==
  ASSUME Inv, NEW w \in Workstreams, MoveNow(w)
  PROVE  Inv'
<1>1. now \in Nat /\ now <= now /\ AppendMembership(w, now, NoTurn)
  BY DEF Inv, Shape, MoveNow
<1> QED BY <1>1, Moves

LEMMA MoveAtTurnStartKeeps ==
  ASSUME Inv, NEW w \in Workstreams, MoveAtTurnStart(w)
  PROVE  Inv'
<1>1. PICK S : S = trace[Root]
  OBVIOUS
<1>2. PICK r \in ToSet(S) : StartOf(r) /\ AppendMembership(w, r.native, r.turn)
  BY <1>1 DEF MoveAtTurnStart
<1>3. PICK p \in DOMAIN S : S[p] = r /\ r.kind = "started"
  BY <1>1, <1>2 DEF StartOf
<1>4. Root \in Traces /\ now \in Nat
  BY SceneIs DEF Inv, Shape
<1>5. Ordered(S) /\ Written(S, scene.records[Root], now)
  BY <1>1, <1>4, Parts
<1>6. r \in Record /\ IsStart(S, p, r.turn)
  BY <1>3, <1>5 DEF Ordered, IsStart
<1>7. PICK q, x, v : q = r.native /\ x = r.turn /\ v = r.at
  OBVIOUS
<1>8. q \in Nat /\ x \in Nat \union {NoTurn} /\ v \in Nat /\ q <= v /\ v < now
  BY <1>3, <1>5, <1>6, <1>7 DEF Record, Written
<1>9. q <= now
  BY <1>4, <1>8
<1>10. AppendMembership(w, q, x)
  BY <1>2, <1>7
<1>11. \E h \in DOMAIN trace[Root] : IsStart(trace[Root], h, x) /\ trace[Root][h].native = q
  BY <1>1, <1>3, <1>6, <1>7
<1> QED BY <1>8, <1>9, <1>10, <1>11, Moves



-----------------------------------------------------------------------------
(* The invariant holds. *)

LEMMA EmptyRollout ==
  ASSUME NEW limit \in Nat, NEW t \in Nat, NEW tr \in Traces
  PROVE  /\ Written(<<>>, limit, t) /\ Ordered(<<>>) /\ Read(tr, <<>>, 0) = NewNormalizer
         /\ NewNormalizer \in Normalizer
         /\ NewNormalizer.outTurns = <<>> /\ NewNormalizer.outEvidence = <<>>
         /\ Routed(tr, NewNormalizer) = {}
<1>1. PICK S : S = <<>>
  OBVIOUS
<1>2. S \in Seq(Record) /\ Len(S) = 0 /\ DOMAIN S = {}
  BY <1>1
<1>3. Ordered(S)
  BY <1>2 DEF Ordered
<1>4. 0 \in 0 .. Len(S) /\ NumberedTo(S, 0)
  BY <1>2 DEF NumberedTo
<1>5. Written(S, limit, t)
  BY <1>2, <1>3, <1>4 DEF Written, Numbered
<1>6. Read(tr, S, 0) = NewNormalizer
  <2>1. 1 \in Nat \ {0} /\ 0 \in Nat /\ 0 < 1
    OBVIOUS
  <2> QED BY <2>1, ReadNothing DEF Read
<1>7. /\ NewNormalizer \in Normalizer
      /\ NewNormalizer.outTurns = <<>> /\ NewNormalizer.outEvidence = <<>>
  BY NewKnown DEF Knows, NewNormalizer
<1>8. Items(NewNormalizer.outTurns) = {} /\ Items(NewNormalizer.outEvidence) = {}
  BY <1>7 DEF Items
<1>9. Routed(tr, NewNormalizer) = {}
  BY <1>8 DEF Routed
<1> QED BY <1>1, <1>3, <1>5, <1>6, <1>7, <1>9

LEMMA InvInit ==
  ASSUME Init, ~scene.reopens
  PROVE  Inv
<1>1. scene \in [second : Nat \ {0}, reopens : BOOLEAN, records : [Traces -> Nat],
                 moves : Nat, faults : Nat]
  BY IngestAssumption DEF Init
<1> HIDE DEF Traces
<1>2. Root \in Traces
  BY DEF Traces
<1>3. /\ scene.second \in Nat \ {0} /\ scene.faults \in Nat
      /\ \A tr \in Traces : scene.records[tr] \in Nat
  <2>1. scene.records \in [Traces -> Nat]
    BY <1>1
  <2> QED BY <1>1, <2>1
<1>4. NewNormalizer \in Normalizer
  BY <1>2, <1>3, EmptyRollout
<1>5. NoState \in Saved /\ NoState.inode = 0 /\ NoState.offset = 0
  BY <1>4 DEF NoState, Saved
<1>6. EmptyFile \in Files(Evidence) /\ EmptyFile \in Files(Turn) /\ EmptyFile.lines = <<>>
  BY DEF EmptyFile, Files
<1>7. <<>> \in Seq(Record) /\ <<>> \in Seq(Membership) /\ <<>> \in Seq(Turn)
  OBVIOUS
<1>8. Shape
  <2>1. trace \in [Traces -> Seq(Record)] /\ inode \in [Traces -> Nat]
    BY <1>7 DEF Init
  <2>2. saved \in [Traces -> Saved] /\ run \in [Traces -> Run]
    BY <1>5, IdleIs DEF Init
  <2>3. \A tr \in Traces : inode[tr] \in 1 .. 1 + faults
    BY DEF Init
  <2> QED BY <1>3, <1>6, <2>1, <2>2, <2>3 DEF Init, Shape
<1>9. ASSUME NEW tr \in Traces
      PROVE  Rollout(tr, trace[tr], scene.records[tr], now, inode[tr],
                     saved[tr], run[tr], memberships, evidence.lines)
  <2>1. PICK lim, t : lim = scene.records[tr] /\ t = now
    OBVIOUS
  <2>2. lim \in Nat /\ t \in Nat
    BY <1>3, <2>1 DEF Init
  <2>3. Written(<<>>, lim, t) /\ Read(tr, <<>>, 0) = NewNormalizer /\ Routed(tr, NewNormalizer) = {}
    BY <2>2, EmptyRollout
  <2>4. SavedOk(tr, <<>>, NoState, 1)
    BY <1>5 DEF SavedOk
  <2>5. Idle.phase \notin HasRead
    BY IdleIs DEF HasRead
  <2>6. /\ RunOk(tr, <<>>, NoState, Idle, 1) /\ Logged(<<>>, Idle, <<>>)
        /\ \A E : Backed(tr, <<>>, NoState.offset, E) => EvidenceOut(tr, <<>>, NoState, Idle, E)
    BY <1>7, <2>5, IdleIs, YoungRun
  <2>7. EvidenceOut(tr, <<>>, NoState, Idle, EmptyFile.lines)
    BY <1>5, <2>3, <2>6 DEF Backed
  <2>8. Rollout(tr, <<>>, lim, t, 1, NoState, Idle, <<>>, EmptyFile.lines)
    BY <2>3, <2>4, <2>6, <2>7 DEF Rollout
  <2>9. /\ trace[tr] = <<>> /\ inode[tr] = 1 /\ saved[tr] = NoState /\ run[tr] = Idle
        /\ memberships = <<>> /\ evidence = EmptyFile
    BY DEF Init
  <2> QED BY <2>1, <2>8, <2>9
<1>10. Moved(memberships, trace[Root], now)
  <2>1. memberships = <<>> /\ Len(memberships) = 0 /\ memberships \in Seq(Membership)
    BY DEF Init
  <2> QED BY <2>1 DEF Moved, Increasing
<1>11. trace[Root] = <<>> /\ Len(<<>>) = 0
  BY <1>2 DEF Init
<1>12. Read(Root, <<>>, 0) = NewNormalizer /\ NewNormalizer.outTurns = <<>>
  BY <1>2, <1>3, EmptyRollout
<1>13. FeedOut(trace[Root], saved[Root], run[Root], feed.lines)
  <2>1. /\ saved[Root] = NoState /\ run[Root] = Idle
    BY <1>2 DEF Init
  <2>2. Out(<<>>, 0, feed.lines)
    BY <1>12 DEF Out
  <2> QED BY <1>5, <1>11, <2>1, <2>2, IdleIs DEF FeedOut
<1>14. FeedOk(trace[Root], memberships, feed.lines, evidence.lines)
  <2>1. PICK L : L = feed.lines
    OBVIOUS
  <2>2. L = <<>>
    BY <1>6, <2>1 DEF Init
  <2>3. L \in Seq(Turn) /\ Len(L) = 0 /\ DOMAIN L = {}
    BY <2>2
  <2>4. Follows(L, <<>>, 0) /\ Items(L) = {}
    BY <2>3 DEF Follows, Items
  <2>5. FeedOk(<<>>, memberships, L, evidence.lines)
    BY <1>11, <1>12, <2>3, <2>4 DEF FeedOk
  <2> QED BY <1>11, <2>1, <2>5
<1>15. EvidenceOk
  <2>1. evidence.lines = <<>>
    BY <1>6 DEF Init
  <2> QED BY <2>1 DEF EvidenceOk, Items
<1> QED BY <1>8, <1>9, <1>10, <1>13, <1>14, <1>15 DEF Inv

LEMMA InvNext ==
  ASSUME Inv, [Next]_vars
  PROVE  Inv'
<1>1. CASE UNCHANGED vars
  <2>1. UNCHANGED <<scene, now, trace, inode, memberships, saved, run, evidence, feed, faults>>
    BY <1>1 DEF vars
  <2>2. Shape' /\ EvidenceOk'
    BY <2>1 DEF Inv, Shape, EvidenceOk
  <2> QED BY <2>1, <2>2 DEF Inv
<1>2. ASSUME NEW tr \in Rollouts,
             \/ TaskStarted(tr) \/ TokenCount(tr) \/ TaskEnded(tr) \/ Rotate(tr)
             \/ Begin(tr) \/ ReadTrace(tr) \/ ResolveMemberships(tr)
             \/ AppendEvidence(tr) \/ AppendTurns(tr) \/ WriteState(tr) \/ Crash(tr)
      PROVE  Inv'
  <2>1. tr \in Traces
    BY DEF Rollouts
  <2> QED BY <1>2, <2>1, CodexStarts, CodexCounts, CodexEnds, RotateKeeps, BeginKeeps, ReadKeeps,
             ResolveKeeps, AppendEvidenceKeeps, AppendTurnsKeeps, WriteStateKeeps, CrashKeeps
<1>3. ASSUME NEW w \in Workstreams, MoveAtTurnStart(w) \/ MoveNow(w)
      PROVE  Inv'
  BY <1>3, MoveAtTurnStartKeeps, MoveNowKeeps
<1> QED BY <1>1, <1>2, <1>3 DEF Next

LEMMA SceneStays ==
  ASSUME [Next]_vars
  PROVE  UNCHANGED scene
BY DEF vars, Next, TaskStarted, TokenCount, TaskEnded, WriteRecord, Rotate, Begin, ReadTrace,
       ResolveMemberships, AppendEvidence, AppendTurns, WriteState, Crash, MoveAtTurnStart,
       MoveNow, AppendMembership, Set

(* Where no turn is started again, the invariant holds in every state. *)
THEOREM Invariance == Spec => [](~scene.reopens => Inv)
<1>1. Init => (~scene.reopens => Inv)
  BY InvInit
<1>2. (~scene.reopens => Inv) /\ [Next]_vars => (~scene.reopens => Inv)'
  <2> SUFFICES ASSUME ~scene.reopens => Inv, [Next]_vars, ~scene'.reopens PROVE Inv'
    OBVIOUS
  <2>1. scene' = scene
    BY SceneStays
  <2> QED BY <2>1, InvNext
<1> QED BY <1>1, <1>2, PTL DEF Spec



-----------------------------------------------------------------------------
(* What the invariant says of the feed. *)

LEMMA PrefixIs ==
  ASSUME NEW X, NEW s \in Seq(X), NEW t \in Seq(X), Prefix(s, t)
  PROVE  IsPrefix(s, t)
<1>1. Len(s) \in Nat /\ Len(t) \in Nat /\ Len(s) <= Len(t) /\ \A i \in 1 .. Len(s) : s[i] = t[i]
  BY DEF Prefix
<1>2. SubSeq(s, 1, Len(s)) = SubSeq(t, 1, Len(s))
  BY <1>1
<1>3. SubSeq(s, 1, Len(s)) = s
  BY WholeSubSeq
<1> QED BY <1>1, <1>2, <1>3 DEF IsPrefix

LEMMA IdsPrefix ==
  ASSUME NEW lines \in Seq(Turn), NEW f \in Seq(Turn), Follows(lines, f, 0)
  PROVE  IsPrefix([i \in DOMAIN lines |-> lines[i].id], [i \in DOMAIN f |-> f[i].id])
<1>1. PICK a, b : a = [i \in DOMAIN lines |-> lines[i].id] /\ b = [i \in DOMAIN f |-> f[i].id]
  OBVIOUS
<1>2. DOMAIN lines = 1 .. Len(lines) /\ DOMAIN f = 1 .. Len(f) /\ Len(lines) <= Len(f)
  BY DEF Follows
<1>3. PICK X : X = Traces \X Nat
  OBVIOUS
<1>4. \A x \in Turn : x.id \in X
  BY <1>3 DEF Turn
<1>5. a \in Seq(X) /\ b \in Seq(X) /\ Len(a) = Len(lines) /\ Len(b) = Len(f)
  BY <1>1, <1>2, <1>4
<1>6. ASSUME NEW i \in 1 .. Len(a) PROVE a[i] = b[i]
  <2>1. i \in 1 .. Len(lines) /\ i \in 1 .. Len(f) /\ 0 + i = i /\ 0 \in Nat
    BY <1>2, <1>5
  <2>2. lines[i].id = f[i].id
    BY <2>1, FollowsIds
  <2> QED BY <1>1, <1>2, <2>1, <2>2
<1>7. Prefix(a, b)
  BY <1>2, <1>5, <1>6 DEF Prefix
<1> QED BY <1>1, <1>5, <1>7, PrefixIs

LEMMA Typed ==
  ASSUME Inv
  PROVE  TypeOK
<1>1. Shape /\ Moved(memberships, trace[Root], now)
  BY DEF Inv
<1>2. PICK m : m = memberships
  OBVIOUS
<1>3. m \in Seq(Membership) /\ Increasing(m)
  BY <1>1, <1>2 DEF Moved
<1> HIDE DEF Traces
<1>4. ASSUME NEW tr \in Traces
      PROVE  /\ trace[tr] \in Seq(Records(tr)) /\ Len(trace[tr]) <= scene.records[tr]
             /\ inode[tr] \in 1 .. 1 + scene.faults
             /\ saved[tr].inode \in 0 .. inode[tr] /\ saved[tr].offset \in 0 .. Len(trace[tr])
             /\ run[tr].phase \in {"idle", "begun", "read", "stamped", "evidenced", "published"}
             /\ IsPrefix(run[tr].log, memberships)
  <2>1. trace[tr] \in Seq(Records(tr))
    <3>1. Records(tr) = Record
      BY DEF Records, Record
    <3> QED BY <3>1, Parts
  <2>2. Len(trace[tr]) <= scene.records[tr]
    BY Parts DEF Written
  <2>3. inode[tr] \in 1 .. 1 + scene.faults
    <3>1. /\ inode[tr] \in 1 .. 1 + faults /\ faults \in 0 .. scene.faults
          /\ faults \in Nat /\ scene.faults \in Nat
      BY Same
    <3> QED BY <3>1
  <2>4. saved[tr].inode \in 0 .. inode[tr] /\ saved[tr].offset \in 0 .. Len(trace[tr])
    BY Parts DEF SavedOk
  <2>5. run[tr].phase \in Phases
    BY Parts DEF Run
  <2>6. IsPrefix(run[tr].log, memberships)
    <3>1. PICK g : g = run[tr].log
      OBVIOUS
    <3>2. g \in Seq(Membership)
      <4>1. run[tr] \in Run
        BY Parts
      <4> QED BY <3>1, <4>1 DEF Run
    <3>3. Prefix(g, m)
      <4>1. Logged(trace[tr], run[tr], memberships)
        BY Parts
      <4> QED BY <1>2, <3>1, <4>1, Zenon DEF Logged
    <3>4. IsPrefix(g, m)
      BY <1>3, <3>2, <3>3, PrefixIs
    <3> QED BY <1>2, <3>1, <3>4, Zenon
  <2> QED BY <2>1, <2>2, <2>3, <2>4, <2>5, <2>6 DEF Phases
<1>5. \A i, j \in DOMAIN memberships : i < j => memberships[i].from < memberships[j].from
  BY <1>2, <1>3 DEF Increasing
<1>6. evidence.torn \in BOOLEAN /\ feed.torn \in BOOLEAN
  BY <1>1 DEF Shape, Files
<1> QED BY <1>1, <1>4, <1>5, <1>6 DEF TypeOK, Shape

LEMMA FeedIs ==
  ASSUME Inv
  PROVE  FeedSound
<1>1. PICK S, L, E, f : /\ S = trace[Root] /\ L = feed.lines /\ E = evidence.lines
                        /\ f = Replay(Root, Len(trace[Root])).outTurns
  OBVIOUS
<1>2. FeedOk(S, memberships, L, E) /\ Root \in Traces
  BY <1>1, SceneIs DEF Inv
<1>3. Ordered(S) /\ Len(S) \in 0 .. Len(S)
  <2>1. Ordered(S)
    BY <1>1, <1>2, Parts
  <2> QED BY <2>1 DEF Ordered
<1>4. f = Read(Root, S, Len(S)).outTurns
  BY <1>1 DEF Replay, Read
<1>5. f \in Seq(Turn) /\ L \in Seq(Turn) /\ Follows(L, f, 0)
  BY <1>2, <1>3, <1>4, NormalizerType DEF FeedOk
<1>6. IsPrefix([i \in DOMAIN L |-> L[i].id], [i \in DOMAIN f |-> f[i].id])
  BY <1>5, IdsPrefix
<1>7. FeedIsPrefix
  BY <1>1, <1>6, Zenon DEF FeedIsPrefix
<1>8. NoDanglingEvidence
  BY <1>1, <1>2 DEF NoDanglingEvidence, FeedOk, Items
<1> QED BY <1>7, <1>8, Typed DEF FeedSound

(* What readers find: whole records, the first turns that ended, each once and
   in that order, and the evidence they refer to, whatever runs died, were
   reset or read a copy of the rollout. *)
THEOREM FeedStaysSound == Spec => [](~scene.reopens => FeedSound)
<1>1. (~scene.reopens => Inv) => (~scene.reopens => FeedSound)
  BY FeedIs
<1> QED BY <1>1, Invariance, PTL


LEMMA ExtendsIs ==
  ASSUME NEW f \in Seq(Turn), NEW g, Extends(g, f)
  PROVE  g \in Seq(Turn) /\ \A i \in DOMAIN f : i \in DOMAIN g /\ g[i] = f[i]
<1>1. PICK h \in Seq(Turn) : g = f \o h
  BY DEF Extends
<1>2. f \o h \in Seq(Turn) /\ Len(f \o h) = Len(f) + Len(h) /\ \A i \in 1 .. Len(f) : (f \o h)[i] = f[i]
  BY ConcatIs
<1>3. g \in Seq(Turn) /\ Len(g) = Len(f) + Len(h) /\ \A i \in 1 .. Len(f) : g[i] = f[i]
  BY <1>1, <1>2, Zenon
<1>4. /\ DOMAIN f = 1 .. Len(f) /\ DOMAIN g = 1 .. Len(g) /\ Len(f) \in Nat /\ Len(h) \in Nat
  BY <1>3
<1>5. ASSUME NEW i \in 1 .. Len(f) PROVE i \in 1 .. Len(g)
  BY <1>3, <1>4
<1> QED BY <1>3, <1>4, <1>5

(* The turns of the first lines are those at the head of the feed. *)
LEMMA TurnsOut ==
  ASSUME NEW S, Ordered(S), NEW m, NEW L, NEW E, FeedOk(S, m, L, E),
         NEW k \in 0 .. Len(S), Out(S, k, L)
  PROVE  Ids(Read(Root, S, k).outTurns) \subseteq Ids(L)
<1>1. PICK f, g : f = Read(Root, S, k).outTurns /\ g = Read(Root, S, Len(S)).outTurns
  OBVIOUS
<1>2. Root \in Traces /\ Len(S) \in k .. Len(S) /\ Len(S) \in 0 .. Len(S)
  BY DEF Traces, Ordered
<1>3. f \in Seq(Turn) /\ Extends(g, f)
  BY <1>1, <1>2, NormalizerType, TurnsGrow
<1>4. g \in Seq(Turn) /\ \A i \in DOMAIN f : i \in DOMAIN g /\ g[i] = f[i]
  BY <1>3, ExtendsIs
<1>5. L \in Seq(Turn) /\ Follows(L, g, 0) /\ DOMAIN f \subseteq DOMAIN L
  BY <1>1 DEF FeedOk, Out
<1>6. ASSUME NEW i \in DOMAIN f PROVE i \in DOMAIN L /\ L[i].id = f[i].id
  <2>1. i \in 1 .. Len(L) /\ DOMAIN L = 1 .. Len(L) /\ 0 + i = i /\ 0 \in Nat
    BY <1>5
  <2>2. L[i].id = g[i].id
    BY <1>4, <1>5, <2>1, FollowsIds
  <2> QED BY <1>4, <2>1, <2>2
<1> QED BY <1>1, <1>6 DEF Ids

LEMMA CheckpointIs ==
  ASSUME Inv
  PROVE  CheckpointSound
<1>1. FeedOk(trace[Root], memberships, feed.lines, evidence.lines) /\ Root \in Traces
  BY SceneIs DEF Inv
<1> HIDE DEF Traces
<1>2. ASSUME NEW tr \in Traces
      PROVE  /\ Ids(RouteTurns(tr, Replay(tr, saved[tr].offset))) \subseteq Ids(feed.lines)
             /\ Ids(RouteEvidence(tr, Replay(tr, saved[tr].offset))) \subseteq Ids(evidence.lines)
             /\ CanResume(tr, FALSE) => Restorable(saved[tr].normalizer)
  <2>1. PICK S, d, k, n : /\ S = trace[tr] /\ d = saved[tr] /\ k = saved[tr].offset
                          /\ n = Replay(tr, saved[tr].offset)
    OBVIOUS
  <2>2. /\ Ordered(S) /\ SavedOk(tr, S, d, inode[tr])
        /\ EvidenceOut(tr, S, d, run[tr], evidence.lines) /\ inode[tr] \in 1 .. 1 + faults
    BY <2>1, Parts, Same
  <2>3. k \in 0 .. Len(S) /\ n = Read(tr, S, k) /\ n \in Normalizer
    <3>1. k \in 0 .. Len(S) /\ n = Read(tr, S, k)
      BY <2>1, <2>2 DEF SavedOk, Replay, Read
    <3> QED BY <2>2, <3>1, NormalizerType
  <2>4. Ids(RouteTurns(tr, n)) \subseteq Ids(feed.lines)
    <3>1. CASE tr = Root
      <4>1. Out(S, k, feed.lines)
        BY <2>1, <3>1, Same DEF FeedOut
      <4>2. PICK L, E : L = feed.lines /\ E = evidence.lines
        OBVIOUS
      <4>3. FeedOk(S, memberships, L, E) /\ Out(S, k, L)
        BY <1>1, <2>1, <3>1, <4>1, <4>2
      <4>4. Ids(Read(Root, S, k).outTurns) \subseteq Ids(L)
        BY <2>2, <2>3, <4>3, TurnsOut
      <4> QED BY <2>3, <3>1, <4>2, <4>4 DEF RouteTurns
    <3>2. CASE tr # Root
      BY <3>2 DEF RouteTurns, Ids
    <3> QED BY <3>1, <3>2
  <2>5. Ids(RouteEvidence(tr, n)) \subseteq Ids(evidence.lines)
    <3>1. \A x \in Routed(tr, n) : x.id \in Ids(evidence.lines)
      BY <2>1, <2>2, <2>3 DEF EvidenceOut, Backed
    <3>2. Items(RouteEvidence(tr, n)) = Routed(tr, n)
      BY <2>3, RouteEvidenceIs
    <3> QED BY <3>1, <3>2 DEF Items, Ids
  <2>6. CanResume(tr, FALSE) => Restorable(saved[tr].normalizer)
    <3>1. SUFFICES ASSUME CanResume(tr, FALSE) PROVE Restorable(d.normalizer)
      BY <2>1
    <3>2. d.inode # 0
      BY <2>1, <2>2, <3>1 DEF CanResume
    <3>3. d.normalizer = Snapshot(n)
      BY <2>1, <2>2, <2>3, <3>2 DEF SavedOk
    <3>4. Knows(tr, S, k, n)
      BY <2>2, <2>3, ReplayKnown
    <3>5. n.current # NoTurn => n.current \in DOMAIN n.turns /\ ~n.turns[n.current].emitted
      BY <2>2, <2>3, <3>4, CurrentOpen
    <3>6. /\ Snapshot(n).current = n.current
          /\ DOMAIN Snapshot(n).turns = {t \in DOMAIN n.turns : ~n.turns[t].emitted}
      BY <2>3 DEF Snapshot, Normalizer
    <3> QED BY <3>3, <3>5, <3>6 DEF Restorable
  <2> QED BY <2>1, <2>4, <2>5, <2>6
<1>3. CheckpointPublished /\ Resumable
  BY <1>2 DEF CheckpointPublished, Resumable
<1> QED BY <1>3 DEF CheckpointSound

(* What the saved checkpoint has passed is published, so that nothing is lost
   when the next run starts behind it, and the next run can start. *)
THEOREM CheckpointStaysSound == Spec => [](~scene.reopens => CheckpointSound)
<1>1. (~scene.reopens => Inv) => (~scene.reopens => CheckpointSound)
  BY CheckpointIs
<1> QED BY <1>1, Invariance, PTL



-----------------------------------------------------------------------------
(* What the invariant says of the stamps. *)

(* A stamp that a longer log would give otherwise is that of a time some later
   membership counts from. *)
LEMMA StampDiffers ==
  ASSUME NEW log \in Seq(Membership), NEW m \in Seq(Membership), Prefix(log, m), NEW t \in Nat,
         MembershipAt(log, t) # MembershipAt(m, t),
         \A i \in Len(log) + 1 .. Len(m) : t < m[i].made
  PROVE  \E i \in DOMAIN m : m[i].from <= t /\ t < m[i].made
<1>1. PICK k \in 0 .. Len(log) :
         /\ InEffect(log, t, k)
         /\ MembershipAt(log, t) = IF k = 0 THEN Unscoped ELSE log[k].workstream
  BY MembershipAtIs
<1>2. PICK l \in 0 .. Len(m) :
         /\ InEffect(m, t, l)
         /\ MembershipAt(m, t) = IF l = 0 THEN Unscoped ELSE m[l].workstream
  BY MembershipAtIs
<1>3. /\ Len(log) \in Nat /\ Len(m) \in Nat /\ Len(log) <= Len(m)
      /\ \A i \in 1 .. Len(log) : log[i] = m[i]
      /\ DOMAIN m = 1 .. Len(m)
  BY DEF Prefix
<1>4. l # k
  <2>1. SUFFICES ASSUME l = k PROVE FALSE
    OBVIOUS
  <2>2. k = 0 \/ k \in 1 .. Len(log)
    OBVIOUS
  <2> QED BY <1>1, <1>2, <1>3, <2>1, <2>2
<1>5. ASSUME NEW i \in 1 .. Len(m) PROVE m[i].from \in Nat
  <2>1. m[i] \in Membership
    OBVIOUS
  <2> QED BY <2>1 DEF Membership
<1>6. ASSUME l < k PROVE FALSE
  <2>1. l + 1 \in 1 .. k /\ l + 1 \in 1 .. Len(log) /\ l + 1 \in 1 .. Len(m) /\ l < Len(m)
    BY <1>3, <1>6
  <2>2. m[l + 1].from > t /\ log[l + 1].from <= t /\ log[l + 1] = m[l + 1]
    BY <1>1, <1>2, <1>3, <2>1 DEF InEffect
  <2>3. PICK a : a = m[l + 1].from
    OBVIOUS
  <2>4. a \in Nat /\ a > t /\ a <= t
    BY <1>5, <2>1, <2>2, <2>3
  <2> QED BY <2>4
<1>7. k < l /\ k + 1 \in 1 .. l /\ k + 1 \in 1 .. Len(m)
  BY <1>3, <1>4, <1>6
<1>8. m[k + 1].from <= t
  BY <1>2, <1>7 DEF InEffect
<1>9. k = Len(log)
  <2>1. SUFFICES ASSUME k < Len(log) PROVE FALSE
    BY <1>3
  <2>2. log[k + 1].from > t /\ k + 1 \in 1 .. Len(log)
    BY <1>1, <1>3, <2>1 DEF InEffect
  <2>3. PICK a : a = m[k + 1].from
    OBVIOUS
  <2>4. a \in Nat /\ a > t /\ a <= t
    BY <1>3, <1>5, <1>7, <1>8, <2>2, <2>3
  <2> QED BY <2>4
<1>10. k + 1 \in Len(log) + 1 .. Len(m)
  BY <1>3, <1>7, <1>9
<1> QED BY <1>3, <1>7, <1>8, <1>10

LEMMA RestampedAgain ==
  ASSUME NEW w, NEW v
  PROVE  /\ \A x \in Turn : Restamped(Restamped(x, w), v) = Restamped(x, v)
         /\ \A x \in Evidence : Restamped(Restamped(x, w), v) = Restamped(x, v)
BY DEF Restamped, Turn, Evidence

(* Within a rollout, and across rollouts, evidence is told apart by its id. *)
LEMMA RoutedIds ==
  ASSUME NEW tr \in Traces, NEW S, Ordered(S), NEW k \in 0 .. Len(S),
         NEW x \in Routed(tr, Read(tr, S, k))
  PROVE  /\ x \in Evidence /\ x.id[1] = tr
         /\ \A y \in Routed(tr, Read(tr, S, k)) : x.id = y.id => x = y
<1>1. PICK n : n = Read(tr, S, k)
  OBVIOUS
<1>2. Knows(tr, S, k, n) /\ n \in Normalizer
  BY <1>1, ReplayKnown DEF Knows
<1>3. PICK f, g : f = n.outTurns /\ g = n.outEvidence
  OBVIOUS
<1>4. f \in Seq(Turn) /\ g \in Seq(Evidence) /\ n.turns \in Builders
  BY <1>2, <1>3 DEF Normalizer
<1>5. DOMAIN n.turns \subseteq Nat
  BY <1>4, BuildersAre
<1>6. ASSUME NEW y \in Items(g)
      PROVE  /\ y \in Evidence /\ \E t \in Nat, l \in 1 .. k : y.id = <<tr, t, l>>
             /\ \A z \in Items(g) : y.id = z.id => y = z
  <2>1. PICK i \in DOMAIN g : y = g[i]
    BY DEF Items
  <2>2. PICK t \in DOMAIN n.turns, l \in 1 .. k :
           g[i] = [id |-> <<tr, t, l>>, at |-> S[l].at, content |-> NoTurn,
                   workstream |-> Unscoped]
    BY <1>2, <1>3 DEF Knows, KnowsEvidence
  <2>3. y.id = <<tr, t, l>> /\ t \in Nat
    BY <1>5, <2>1, <2>2
  <2>4. \A z \in Items(g) : y.id = z.id => y = z
    BY <1>2, <1>3, <2>1 DEF Knows, KnowsEvidence, Items
  <2>5. y \in Evidence
    BY <1>4, <2>1
  <2> QED BY <2>3, <2>4, <2>5
<1>7. ASSUME NEW a \in Items(f)
      PROVE  /\ a \in Turn /\ TurnEvidence(a) \in Evidence
             /\ \E t \in Nat : a.id = <<tr, t>> /\ TurnEvidence(a).id = <<tr, t, 0>>
             /\ \A b \in Items(f) : a.id = b.id => a = b
  <2>1. PICK i \in DOMAIN f : a = f[i]
    BY DEF Items
  <2>2. a \in Turn
    BY <1>4, <2>1
  <2>3. PICK t \in DOMAIN n.turns : a.id = <<tr, t>>
    BY <1>2, <1>3, <2>1 DEF Knows, KnowsEnded
  <2>4. TurnEvidence(a) \in Evidence /\ TurnEvidence(a).id = <<a.id[1], a.id[2], 0>>
    BY <2>2, TurnEvidenceIs
  <2>5. TurnEvidence(a).id = <<tr, t, 0>> /\ t \in Nat
    BY <1>5, <2>3, <2>4
  <2>6. \A b \in Items(f) : a.id = b.id => a = b
    BY <1>2, <1>3, <2>1 DEF Knows, KnowsEnded, Items
  <2> QED BY <2>2, <2>3, <2>4, <2>5, <2>6
<1>8. \A y \in Routed(tr, n) : \/ y \in Items(g)
                              \/ \E a \in Items(f) : y = TurnEvidence(a)
  BY <1>3 DEF Routed
<1>9. ASSUME NEW y \in Items(g), NEW a \in Items(f) PROVE y.id # TurnEvidence(a).id
  <2>1. PICK t \in Nat, l \in 1 .. k : y.id = <<tr, t, l>>
    BY <1>6
  <2>2. PICK s \in Nat : TurnEvidence(a).id = <<tr, s, 0>>
    BY <1>7
  <2>3. l # 0
    OBVIOUS
  <2> QED BY <2>1, <2>2, <2>3
<1>10. ASSUME NEW a \in Items(f), NEW b \in Items(f), TurnEvidence(a).id = TurnEvidence(b).id
       PROVE  a = b
  <2>1. PICK t \in Nat : a.id = <<tr, t>> /\ TurnEvidence(a).id = <<tr, t, 0>>
    BY <1>7
  <2>2. PICK s \in Nat : b.id = <<tr, s>> /\ TurnEvidence(b).id = <<tr, s, 0>>
    BY <1>7
  <2>3. PICK i, j : i = TurnEvidence(a).id /\ j = TurnEvidence(b).id
    OBVIOUS
  <2>4. i = <<tr, t, 0>> /\ j = <<tr, s, 0>> /\ i = j
    BY <1>10, <2>1, <2>2, <2>3
  <2>5. s = t
    BY <2>4
  <2> QED BY <1>7, <2>1, <2>2, <2>5
<1>11. ASSUME NEW y \in Routed(tr, n), x.id = y.id PROVE x = y
  <2>1. x \in Routed(tr, n)
    BY <1>1
  <2>2. CASE x \in Items(g)
    BY <1>6, <1>8, <1>9, <1>11, <2>2
  <2>3. CASE \E a \in Items(f) : x = TurnEvidence(a)
    BY <1>8, <1>9, <1>10, <1>11, <2>3
  <2> QED BY <1>8, <2>1, <2>2, <2>3
<1>12. x \in Evidence /\ x.id[1] = tr
  <2>1. x \in Routed(tr, n)
    BY <1>1
  <2> QED BY <1>6, <1>7, <1>8, <2>1
<1> QED BY <1>1, <1>11, <1>12


(* A publication stamped by the log of its time, and a later one. *)
Differs(old, new, t, m) ==
    /\ Restamped(new, old.workstream) = old
    /\ \E i \in DOMAIN m : m[i].from <= t /\ t < m[i].made

LEMMA TurnDiffers ==
  ASSUME NEW S, Ordered(S), NEW m \in Seq(Membership), NEW L, NEW E, FeedOk(S, m, L, E),
         NEW f, f = Read(Root, S, Len(S)).outTurns,
         NEW old \in Items(L), NEW new \in Items(StampTurns(f, m)),
         old.id = new.id, old # new
  PROVE  Differs(old, new, old.started, m)
<1>1. Root \in Traces /\ Len(S) \in 0 .. Len(S)
  BY DEF Traces, Ordered
<1>2. PICK n : n = Read(Root, S, Len(S))
  OBVIOUS
<1>3. Knows(Root, S, Len(S), n) /\ f = n.outTurns
  BY <1>1, <1>2, ReplayKnown
<1>4. f \in Seq(Turn) /\ DOMAIN f = 1 .. Len(f)
  BY <1>3 DEF Knows, Normalizer
<1>5. L \in Seq(Turn) /\ Follows(L, f, 0) /\ DOMAIN L = 1 .. Len(L)
  BY DEF FeedOk
<1>6. PICK i \in 1 .. Len(L) : old = L[i]
  BY <1>5 DEF Items
<1>7. PICK s : s = StampTurns(f, m)
  OBVIOUS
<1>8. /\ Len(s) = Len(f) /\ DOMAIN s = 1 .. Len(f)
      /\ \A j \in 1 .. Len(f) : s[j] = Restamped(f[j], MembershipAt(m, f[j].started))
  BY <1>4, <1>7, StampTurnsIs
<1>9. PICK j \in 1 .. Len(f) : new = s[j]
  BY <1>7, <1>8 DEF Items
<1>10. PICK x, y, v, w : x = f[i] /\ y = f[j] /\ v = old.workstream /\ w = MembershipAt(m, y.started)
  OBVIOUS
<1>11. 0 + i = i /\ 0 \in Nat
  OBVIOUS
<1>12. i \in 1 .. Len(f) /\ x \in Turn /\ y \in Turn /\ old = Restamped(x, v) /\ new = Restamped(y, w)
  <2>1. i \in 1 .. Len(f) /\ L[i] = Restamped(f[i], L[i].workstream)
    BY <1>4, <1>5, <1>11 DEF Follows
  <2> QED BY <1>4, <1>6, <1>8, <1>9, <1>10, <2>1
<1>13. old.id = x.id /\ new.id = y.id /\ old.started = x.started /\ old.workstream = v
  <2>1. /\ Restamped(x, v).id = x.id /\ Restamped(x, v).started = x.started
        /\ Restamped(y, w).id = y.id
    BY <1>12, RestampedIs
  <2> QED BY <1>10, <1>12, <2>1, Zenon
<1>14. i = j
  BY <1>3, <1>4, <1>10, <1>12, <1>13 DEF Knows, KnowsEnded
<1>15. x = y /\ v # w
  BY <1>10, <1>12, <1>14
<1>16. Restamped(new, v) = old
  BY <1>12, <1>15, RestampedAgain
<1>17. PICK t : t = old.started
  OBVIOUS
<1>18. t \in Nat /\ w = MembershipAt(m, t)
  BY <1>10, <1>12, <1>13, <1>15, <1>17 DEF Turn
<1>19. PICK g : StampedBy(v, t, m, g)
  BY <1>10, <1>17 DEF FeedOk, TurnStamped
<1>20. /\ g \in Seq(Membership) /\ Prefix(g, m) /\ v = MembershipAt(g, t)
       /\ \A h \in Len(g) + 1 .. Len(m) : t < m[h].made
  BY <1>19 DEF StampedBy
<1>21. \E h \in DOMAIN m : m[h].from <= t /\ t < m[h].made
  BY <1>15, <1>18, <1>20, StampDiffers
<1> QED BY <1>10, <1>16, <1>17, <1>21 DEF Differs

LEMMA EvidenceDiffers ==
  ASSUME NEW m \in Seq(Membership), NEW tr \in Traces, NEW S, Ordered(S),
         NEW tr2 \in Traces, NEW S2, Ordered(S2), tr = tr2 => S = S2,
         NEW old, From(tr2, S2, old), EvidenceStamped(old, m),
         NEW new \in Items(StampEvidence(RouteEvidence(tr, Read(tr, S, Len(S))), m)),
         old.id = new.id, old # new
  PROVE  Differs(old, new, old.at, m)
<1>1. Len(S) \in 0 .. Len(S) /\ Len(S2) \in 0 .. Len(S2)
  BY DEF Ordered
<1>2. PICK r, s : r = RouteEvidence(tr, Read(tr, S, Len(S))) /\ s = StampEvidence(r, m)
  OBVIOUS
<1>3. r \in Seq(Evidence) /\ Items(r) = Routed(tr, Read(tr, S, Len(S)))
  BY <1>1, <1>2, NormalizerType, RouteEvidenceIs
<1>4. /\ Len(s) = Len(r) /\ DOMAIN s = 1 .. Len(r) /\ DOMAIN r = 1 .. Len(r)
      /\ \A j \in 1 .. Len(r) : s[j] = Restamped(r[j], MembershipAt(m, r[j].at))
  BY <1>2, <1>3, StampEvidenceIs
<1>5. PICK j \in 1 .. Len(r) : new = s[j]
  BY <1>2, <1>4 DEF Items
<1>6. PICK x \in Routed(tr2, Read(tr2, S2, Len(S2))) : old = Restamped(x, old.workstream)
  BY DEF From
<1>7. PICK y, v, w : y = r[j] /\ v = old.workstream /\ w = MembershipAt(m, y.at)
  OBVIOUS
<1>8. y \in Routed(tr, Read(tr, S, Len(S))) /\ new = Restamped(y, w) /\ old = Restamped(x, v)
  BY <1>3, <1>4, <1>5, <1>6, <1>7 DEF Items
<1>9. x \in Evidence /\ y \in Evidence /\ x.id[1] = tr2 /\ y.id[1] = tr
  BY <1>1, <1>8, RoutedIds
<1>10. old.id = x.id /\ new.id = y.id /\ old.at = x.at
  <2>1. x \in Evidence /\ y \in Evidence
    BY <1>9, Zenon
  <2>2. \A e \in Evidence : \A a : Restamped(e, a).id = e.id /\ Restamped(e, a).at = e.at
    BY RestampedIs, Zenon
  <2>3. /\ Restamped(x, v).id = x.id /\ Restamped(x, v).at = x.at
        /\ Restamped(y, w).id = y.id
    BY <2>1, <2>2, Zenon
  <2> QED BY <1>8, <2>3, Zenon
<1>11. x = y
  <2>1. tr = tr2
    BY <1>9, <1>10
  <2>2. \A z \in Routed(tr, Read(tr, S, Len(S))) : y.id = z.id => y = z
    BY <1>1, <1>8, RoutedIds
  <2> QED BY <1>10, <2>1, <2>2
<1>12. v # w
  BY <1>8, <1>11
<1>13. Restamped(new, v) = old
  BY <1>8, <1>9, <1>11, RestampedAgain
<1>14. PICK t : t = old.at
  OBVIOUS
<1>15. t \in Nat /\ w = MembershipAt(m, t)
  BY <1>7, <1>9, <1>10, <1>11, <1>14 DEF Evidence
<1>16. PICK g : StampedBy(v, t, m, g)
  BY <1>7, <1>14 DEF EvidenceStamped
<1>17. /\ g \in Seq(Membership) /\ Prefix(g, m) /\ v = MembershipAt(g, t)
       /\ \A h \in Len(g) + 1 .. Len(m) : t < m[h].made
  BY <1>16 DEF StampedBy
<1>18. \E h \in DOMAIN m : m[h].from <= t /\ t < m[h].made
  BY <1>12, <1>15, <1>17, StampDiffers
<1> QED BY <1>7, <1>13, <1>14, <1>18 DEF Differs

LEMMA StampsAre ==
  ASSUME Inv
  PROVE  OnlyBackdatedStampsDiffer
<1>1. Root \in Traces /\ memberships \in Seq(Membership)
  BY SceneIs, MembershipsType DEF Inv
<1> HIDE DEF Traces
<1>2. ASSUME NEW old \in ToSet(feed.lines), NEW new \in ToSet(ResetTurns), old.id = new.id, old # new
      PROVE  Differs(old, new, old.started, memberships)
  <2>1. PICK S, L, E, f, m : /\ S = trace[Root] /\ L = feed.lines /\ E = evidence.lines
                             /\ f = Read(Root, S, Len(S)).outTurns /\ m = memberships
    OBVIOUS
  <2>2. Ordered(S) /\ FeedOk(S, m, L, E) /\ m \in Seq(Membership)
    BY <1>1, <2>1, Parts DEF Inv
  <2>3. ResetTurns = StampTurns(f, m)
    BY <2>1 DEF ResetTurns, RouteTurns, Replay, Read
  <2>4. old \in Items(L) /\ new \in Items(StampTurns(f, m))
    BY <2>1, <2>3 DEF ToSet, Items
  <2>5. Differs(old, new, old.started, m)
    BY <1>2, <2>1, <2>2, <2>4, TurnDiffers
  <2> QED BY <2>1, <2>5
<1>3. ASSUME NEW tr \in Traces, NEW old \in ToSet(evidence.lines),
             NEW new \in ToSet(ResetEvidence(tr)), old.id = new.id, old # new
      PROVE  Differs(old, new, old.at, memberships)
  <2>1. EvidenceStamped(old, memberships) /\ \E tr2 \in Traces : From(tr2, trace[tr2], old)
    BY DEF Inv, EvidenceOk, ToSet, Items
  <2>2. PICK tr2 \in Traces : From(tr2, trace[tr2], old)
    BY <2>1
  <2>3. PICK S, S2, m : S = trace[tr] /\ S2 = trace[tr2] /\ m = memberships
    OBVIOUS
  <2>4. /\ Ordered(S) /\ Ordered(S2) /\ (tr = tr2 => S = S2)
        /\ From(tr2, S2, old) /\ EvidenceStamped(old, m) /\ m \in Seq(Membership)
    BY <1>1, <2>1, <2>2, <2>3, Parts
  <2>5. ResetEvidence(tr) = StampEvidence(RouteEvidence(tr, Read(tr, S, Len(S))), m)
    BY <2>3 DEF ResetEvidence, Replay, Read
  <2>6. new \in Items(StampEvidence(RouteEvidence(tr, Read(tr, S, Len(S))), m))
    BY <2>5 DEF ToSet, Items
  <2>7. Differs(old, new, old.at, m)
    BY <1>3, <2>4, <2>6, EvidenceDiffers
  <2> QED BY <2>3, <2>7
<1> QED BY <1>2, <1>3 DEF OnlyBackdatedStampsDiffer, Differs, Restamped, Backdated

(* A reset ingest reproduces every published record, but for the stamp of one
   whose time a later membership was backdated over. *)
THEOREM OnlyBackdatedStampsEverDiffer == Spec => [](~scene.reopens => OnlyBackdatedStampsDiffer)
<1>1. (~scene.reopens => Inv) => (~scene.reopens => OnlyBackdatedStampsDiffer)
  BY StampsAre
<1> QED BY <1>1, Invariance, PTL


(* The stamp of a time that a membership of the log counts from is its. *)
LEMMA StampTarget ==
  ASSUME NEW log \in Seq(Membership), NEW m \in Seq(Membership), Prefix(log, m), Increasing(m),
         NEW i \in 1 .. Len(log), NEW t \in Nat, m[i].from = t
  PROVE  MembershipAt(log, t) = m[i].workstream
<1>1. PICK k \in 0 .. Len(log) :
         /\ InEffect(log, t, k)
         /\ MembershipAt(log, t) = IF k = 0 THEN Unscoped ELSE log[k].workstream
  BY MembershipAtIs
<1>2. /\ Len(log) \in Nat /\ Len(m) \in Nat /\ Len(log) <= Len(m)
      /\ \A j \in 1 .. Len(log) : log[j] = m[j] /\ j \in 1 .. Len(m)
  BY DEF Prefix
<1>3. ASSUME NEW j \in 1 .. Len(log) PROVE m[j].from \in Nat
  <2>1. m[j] \in Membership
    BY <1>2
  <2> QED BY <2>1 DEF Membership
<1>4. ASSUME k < i PROVE FALSE
  <2>1. k + 1 \in 1 .. Len(log) /\ k < Len(log) /\ (k + 1 = i \/ k + 1 < i)
    BY <1>2, <1>4
  <2>2. m[k + 1].from > t
    BY <1>1, <1>2, <2>1 DEF InEffect
  <2>3. k + 1 < i => m[k + 1].from < m[i].from
    BY <1>2, <2>1 DEF Increasing
  <2>4. PICK a : a = m[k + 1].from
    OBVIOUS
  <2>5. a \in Nat /\ a > t /\ (a < t \/ a = t)
    BY <1>3, <2>1, <2>2, <2>3, <2>4
  <2> QED BY <2>5
<1>5. ASSUME i < k PROVE FALSE
  <2>1. k \in 1 .. Len(log) /\ k \in 1 .. k
    BY <1>2, <1>5
  <2>2. m[k].from <= t /\ m[i].from < m[k].from
    BY <1>1, <1>2, <1>5, <2>1 DEF InEffect, Increasing
  <2>3. PICK a : a = m[k].from
    OBVIOUS
  <2>4. a \in Nat /\ a <= t /\ t < a
    BY <1>3, <2>1, <2>2, <2>3
  <2> QED BY <2>4
<1>6. k = i
  BY <1>2, <1>4, <1>5
<1> QED BY <1>1, <1>2, <1>6

LEMMA MovedTurn ==
  ASSUME NEW S, NEW limit, NEW t \in Nat, Written(S, limit, t), NEW m, Moved(m, S, t),
         NEW L, NEW E, FeedOk(S, m, L, E), NEW x \in Items(L), NEW i \in 1 .. Len(m),
         x.id = <<Root, m[i].turn>>, i > 1 => m[i - 1].from < x.started,
         ~EndedIn(S, m[i].turn, m[i].made)
  PROVE  x.workstream = m[i].workstream
<1>1. PICK z \in Nat : /\ x.id = <<Root, z>> /\ x.started \in Nat
                       /\ \E a \in DOMAIN S : IsStart(S, a, z) /\ x.started = S[a].native
  BY FeedPast
<1>2. PICK a \in DOMAIN S : IsStart(S, a, z) /\ x.started = S[a].native
  BY <1>1
<1>3. m[i].turn = z /\ m[i].turn # NoTurn
  <2>1. PICK y : y = m[i].turn
    OBVIOUS
  <2>2. <<Root, z>> = <<Root, y>>
    BY <1>1, <2>1
  <2>3. z = y
    BY <2>2
  <2> QED BY <2>1, <2>3, IngestAssumption
<1>4. PICK p \in DOMAIN S :
         /\ IsStart(S, p, z)
         /\ (i > 1 => m[i - 1].from < S[p].native) => m[i].from = S[p].native
  BY <1>3 DEF Moved
<1>5. p = a
  <2>1. Ordered(S)
    BY DEF Written
  <2>2. DOMAIN S = 1 .. Len(S)
    BY <2>1 DEF Ordered
  <2>3. p < a \/ a < p \/ p = a
    BY <2>2
  <2>4. ~(p < a) /\ ~(a < p)
    <3>1. p < a => p \in 1 .. a - 1
      BY <2>2
    <3>2. a < p => a \in 1 .. p - 1
      BY <2>2
    <3> QED BY <1>2, <1>4, <2>1, <3>1, <3>2 DEF Ordered, IsStart
  <2> QED BY <2>3, <2>4
<1>6. PICK s, v : s = x.started /\ v = x.workstream
  OBVIOUS
<1>7. s \in Nat /\ m[i].from = s
  BY <1>1, <1>2, <1>4, <1>5, <1>6
<1>8. PICK g : /\ StampedBy(v, s, m, g)
               /\ \A h \in Len(g) + 1 .. Len(m) :
                     x.id = <<Root, m[h].turn>> => EndedIn(S, m[h].turn, m[h].made)
  BY <1>6 DEF FeedOk, TurnStamped
<1>9. g \in Seq(Membership) /\ Prefix(g, m) /\ v = MembershipAt(g, s)
  BY <1>8 DEF StampedBy
<1>10. m \in Seq(Membership) /\ Increasing(m)
  BY DEF Moved
<1>11. i \in 1 .. Len(g)
  <2>1. i \notin Len(g) + 1 .. Len(m)
    BY <1>8
  <2>2. Len(g) \in Nat
    BY <1>9
  <2> QED BY <1>10, <2>1, <2>2
<1>12. MembershipAt(g, s) = m[i].workstream
  BY <1>7, <1>9, <1>10, <1>11, StampTarget
<1> QED BY <1>6, <1>9, <1>12

LEMMA MovesAre ==
  ASSUME Inv
  PROVE  MoveTurnInTarget
<1>1. SUFFICES ASSUME NEW i \in DOMAIN memberships, NEW k \in DOMAIN feed.lines,
                      feed.lines[k].id = <<Root, memberships[i].turn>>,
                      i > 1 => memberships[i - 1].from < feed.lines[k].started,
                      ~EndedBefore(memberships[i].turn, memberships[i].made)
               PROVE  feed.lines[k].workstream = memberships[i].workstream
  BY DEF MoveTurnInTarget
<1>2. PICK S, lim, t, m, L, E, x :
         /\ S = trace[Root] /\ lim = scene.records[Root] /\ t = now /\ m = memberships
         /\ L = feed.lines /\ E = evidence.lines /\ x = feed.lines[k]
  OBVIOUS
<1>3. Root \in Traces /\ t \in Nat
  BY <1>2, SceneIs DEF Inv, Shape
<1>4. Written(S, lim, t) /\ Moved(m, S, t) /\ FeedOk(S, m, L, E) /\ x \in Items(L)
  BY <1>2, <1>3, Parts DEF Inv, Items
<1>5. i \in 1 .. Len(m)
  BY <1>2, <1>4 DEF Moved
<1>6. x.id = <<Root, m[i].turn>> /\ (i > 1 => m[i - 1].from < x.started)
  BY <1>1, <1>2
<1>7. ~EndedIn(S, m[i].turn, m[i].made)
  BY <1>1, <1>2 DEF EndedIn, EndedBefore, IsEnd, ToSet
<1>8. x.workstream = m[i].workstream
  BY <1>3, <1>4, <1>5, <1>6, <1>7, MovedTurn
<1> QED BY <1>2, <1>8

(* A turn whose prompt moved the session is published in the workstream it
   moved to, unless the membership before counts from its start or later, or it
   had ended in the rollout before the move was made. *)
THEOREM MoveTurnsInTarget == Spec => [](~scene.reopens => MoveTurnInTarget)
<1>1. (~scene.reopens => Inv) => (~scene.reopens => MoveTurnInTarget)
  BY MovesAre
<1> QED BY <1>1, Invariance, PTL

=============================================================================
