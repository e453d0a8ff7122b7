------------------------ MODULE PublishJournalProofs ------------------------
(***************************************************************************)
(* Theorems of PublishJournal for any number of hooks, workstreams, texts  *)
(* and any length of the journal.                                          *)
(***************************************************************************)
EXTENDS PublishJournal, TLAPS, SequenceTheorems, FiniteSetTheorems

-----------------------------------------------------------------------------
(* Sequences *)

LEMMA LeastOfNats ==
  ASSUME NEW T \in SUBSET Nat, T # {}
  PROVE  \E x \in T : \A y \in T : x <= y
<1> DEFINE R == {ss \in Nat \X Nat : ss[1] < ss[2]}
<1>1. IsWellFoundedOn(R, Nat)
  BY NatLessThanWellFounded DEF OpToRel
<1>2. PICK x \in T : \A y \in T : <<y, x>> \notin R
  BY <1>1, WFMin
<1>3. ASSUME NEW y \in T, y < x PROVE FALSE
  <2>1. <<y, x>> \in Nat \X Nat /\ <<y, x>>[1] = y /\ <<y, x>>[2] = x
    OBVIOUS
  <2>2. <<y, x>> \in R
    BY <1>3, <2>1
  <2> QED BY <1>2, <2>2
<1>4. \A y \in T : x <= y
  BY <1>3
<1> QED BY <1>4

LEMMA MinOfNats ==
  ASSUME NEW T \in SUBSET Nat, T # {}
  PROVE  Min(T) \in T
BY LeastOfNats DEF Min

LEMMA RemoveAtProperties ==
  ASSUME NEW S, NEW s \in Seq(S), NEW i \in 1 .. Len(s)
  PROVE  /\ RemoveAt(s, i) \in Seq(S)
         /\ Len(RemoveAt(s, i)) = Len(s) - 1
         /\ \A k \in 1 .. Len(s) - 1 :
              RemoveAt(s, i)[k] = IF k < i THEN s[k] ELSE s[k + 1]
<1> DEFINE a == SubSeq(s, 1, i - 1)
           b == SubSeq(s, i + 1, Len(s))
<1>1. /\ a \in Seq(S) /\ Len(a) = i - 1 /\ \A k \in 1 .. i - 1 : a[k] = s[k]
      /\ b \in Seq(S) /\ Len(b) = Len(s) - i /\ \A k \in 1 .. Len(s) - i : b[k] = s[k + i]
  <2>1. \A k \in 1 .. i - 1 : s[k] \in S
    OBVIOUS
  <2>2. \A k \in i + 1 .. Len(s) : s[k] \in S
    OBVIOUS
  <2>3. i - 1 \in Int /\ i + 1 \in Int /\ Len(s) \in Int /\ 1 \in Int /\ Len(s) \in Nat
    OBVIOUS
  <2>4. /\ a \in Seq(S) /\ Len(a) = i - 1 /\ \A k \in 1 .. i - 1 : a[k] = s[k]
    BY <2>1, <2>3, SubSeqProperties
  <2>5. /\ b \in Seq(S) /\ Len(b) = Len(s) - i /\ \A k \in 1 .. Len(s) - i : b[k] = s[k + i]
    BY <2>2, <2>3, SubSeqProperties
  <2> QED BY <2>4, <2>5
<1> HIDE DEF a, b
<1>2. /\ a \o b \in Seq(S) /\ Len(a \o b) = Len(a) + Len(b)
      /\ \A k \in 1 .. Len(a) + Len(b) :
           (a \o b)[k] = IF k <= Len(a) THEN a[k] ELSE b[k - Len(a)]
  BY <1>1, ConcatProperties
<1>3. Len(s) \in Nat /\ i \in Nat
  OBVIOUS
<1>4. ASSUME NEW k \in 1 .. Len(s) - 1
      PROVE  (a \o b)[k] = IF k < i THEN s[k] ELSE s[k + 1]
  <2>1. k \in 1 .. Len(a) + Len(b) /\ (k <= Len(a) <=> k < i)
    BY <1>1, <1>3
  <2>2. CASE k < i
    BY <1>1, <1>2, <1>3, <2>1, <2>2
  <2>3. CASE ~(k < i)
    <3>1. k - (i - 1) \in 1 .. Len(s) - i /\ (k - (i - 1)) + i = k + 1
      BY <1>3, <2>3
    <3>2. (a \o b)[k] = b[k - (i - 1)]
      BY <1>1, <1>2, <1>3, <2>1, <2>3
    <3>3. b[k - (i - 1)] = s[(k - (i - 1)) + i]
      BY <1>1, <3>1
    <3> QED BY <1>3, <2>3, <3>1, <3>2, <3>3
  <2> QED BY <2>2, <2>3
<1>5. RemoveAt(s, i) = a \o b
  BY DEF RemoveAt, a, b
<1>6. a \o b \in Seq(S) /\ Len(a \o b) = Len(s) - 1
  BY <1>1, <1>2, <1>3
<1> QED BY <1>4, <1>5, <1>6

-----------------------------------------------------------------------------
(* Journals *)

JournalType == [attempts : Seq(Attempt), dropped : Nat]

Unique(s) == \A x, y \in DOMAIN s : s[x].id = s[y].id => x = y

LEMMA EntriesOf ==
  ASSUME NEW j \in JournalType
  PROVE  /\ Entries(j) = {j.attempts[i] : i \in 1 .. Len(j.attempts)}
         /\ Entries(j) \subseteq Attempt
         /\ DOMAIN j.attempts = 1 .. Len(j.attempts)
         /\ Len(j.attempts) \in Nat
<1>1. j.attempts \in Seq(Attempt)
  BY DEF JournalType
<1> QED BY <1>1, RangeEquality, RangeOfSeq DEF Entries

(* What is evicted is an entry. *)
LEMMA OldestIsThere ==
  ASSUME NEW S, NEW s \in Seq(S), Len(s) > 0
  PROVE  Oldest(s) \in 1 .. Len(s)
<1> DEFINE I == {i \in 1 .. Len(s) : Finished(s[i])}
<1>1. Oldest(s) = IF I # {} THEN (IF Min(I) = 0 THEN 1 ELSE Min(I)) ELSE 1
  BY DEF Oldest, SelectInSeq
<1>2. I \in SUBSET Nat
  OBVIOUS
<1>3. I # {} => Min(I) \in I
  BY <1>2, MinOfNats
<1>4. Len(s) \in Nat
  OBVIOUS
<1> HIDE DEF I
<1>5. I \subseteq 1 .. Len(s)
  BY DEF I
<1>6. CASE I # {}
  <2>1. Min(I) \in 1 .. Len(s)
    BY <1>3, <1>5, <1>6
  <2>2. Min(I) # 0
    BY <2>1
  <2> QED BY <1>1, <1>6, <2>1, <2>2
<1>7. CASE I = {}
  BY <1>1, <1>4, <1>7
<1> QED BY <1>6, <1>7

(* fitJournal keeps a journal within its limit, and counts what it drops. *)
LEMMA FitProperties ==
  ASSUME NEW j \in JournalType, Unique(j.attempts), Len(j.attempts) <= MaxAttempts + 1
  PROVE  /\ FitJournal(j) \in JournalType
         /\ Accepted(FitJournal(j))
         /\ Entries(FitJournal(j)) \subseteq Entries(j)
         /\ Len(FitJournal(j).attempts) + FitJournal(j).dropped = Len(j.attempts) + j.dropped
<1> DEFINE s == j.attempts
           o == Oldest(s)
           f == FitJournal(j)
<1>1. s \in Seq(Attempt) /\ Len(s) \in Nat /\ j.dropped \in Nat /\ MaxAttempts \in Nat \ {0}
  BY PublishAssumption DEF JournalType
<1>2. CASE Len(s) <= MaxAttempts
  <2>1. f = j
    BY <1>2 DEF FitJournal
  <2> QED BY <1>2, <2>1 DEF Accepted, Unique
<1>3. CASE ~(Len(s) <= MaxAttempts)
  <2>1. o \in 1 .. Len(s)
    BY <1>1, <1>3, OldestIsThere
  <2> DEFINE t == RemoveAt(s, o)
  <2>2. f = [attempts |-> t, dropped |-> j.dropped + 1]
    BY <1>3 DEF FitJournal
  <2> HIDE DEF o, s
  <2>3. /\ t \in Seq(Attempt) /\ Len(t) = Len(s) - 1
        /\ \A k \in 1 .. Len(s) - 1 : t[k] = IF k < o THEN s[k] ELSE s[k + 1]
    BY <1>1, <2>1, RemoveAtProperties
  <2> HIDE DEF t, f
  <2>4. f \in JournalType /\ f.attempts = t /\ f.dropped = j.dropped + 1
    BY <1>1, <2>2, <2>3 DEF JournalType
  <2>5. /\ \A k \in 1 .. Len(t) : (IF k < o THEN k ELSE k + 1) \in 1 .. Len(s)
        /\ \A k \in 1 .. Len(t) : t[k] = s[IF k < o THEN k ELSE k + 1]
    BY <1>1, <2>1, <2>3
  <2>6. Entries(f) \subseteq Entries(j)
    BY <2>4, <2>5, EntriesOf DEF s
  <2>7. \A x, y \in 1 .. Len(t) : t[x].id = t[y].id => x = y
    <3> SUFFICES ASSUME NEW x \in 1 .. Len(t), NEW y \in 1 .. Len(t), t[x].id = t[y].id
                 PROVE  x = y
      OBVIOUS
    <3> DEFINE p(k) == IF k < o THEN k ELSE k + 1
    <3>1. p(x) \in DOMAIN s /\ p(y) \in DOMAIN s /\ s[p(x)].id = s[p(y)].id
      BY <1>1, <2>5
    <3>2. p(x) = p(y)
      BY <3>1 DEF Unique, s
    <3>3. x \in Nat /\ y \in Nat /\ o \in Nat
      BY <1>1, <2>1, <2>3
    <3> QED BY <3>2, <3>3
  <2>8. Accepted(f)
    BY <1>1, <1>3, <2>3, <2>4, <2>7 DEF Accepted, s
  <2>9. Len(t) + (j.dropped + 1) = Len(s) + j.dropped
    BY <1>1, <2>3
  <2>10. Len(f.attempts) + f.dropped = Len(s) + j.dropped
    BY <2>4, <2>9
  <2> QED BY <2>4, <2>6, <2>8, <2>10 DEF f, s
<1> QED BY <1>2, <1>3

(* The updates that hooks make of the journal j, for the entry e of one of
   them: the entry is in it, or was evicted; no entry of the same hook stays
   beside it; and any other entry was there before, as it is now or unfinished
   and of a hook that is gone. *)
Updates(j, k, e) ==
    /\ k \in JournalType /\ Accepted(k)
    /\ \A x \in Entries(k) :
         \/ x = e
         \/ /\ x.id # e.id
            /\ \E y \in Entries(j) :
                 /\ y.id = x.id /\ y.at = x.at
                 /\ \/ x = y
                    \/ ~Finished(y) /\ x.outcome = "not_recorded" /\ ~Alive(x.id)
    /\ Len(j.attempts) + j.dropped <= Len(k.attempts) + k.dropped
    /\ (\A y \in Entries(j) : y.id # e.id) =>
         Len(j.attempts) + j.dropped + 1 = Len(k.attempts) + k.dropped

LEMMA IndexProperties ==
  ASSUME NEW j \in JournalType, NEW a
  PROVE  \/ /\ IndexIn(j, a) = 0
            /\ \A i \in 1 .. Len(j.attempts) : j.attempts[i].id # a
         \/ /\ IndexIn(j, a) \in 1 .. Len(j.attempts)
            /\ j.attempts[IndexIn(j, a)].id = a
<1> DEFINE s == j.attempts
           I == {i \in 1 .. Len(s) : s[i].id = a}
<1>1. IndexIn(j, a) = IF I # {} THEN Min(I) ELSE 0
  BY DEF IndexIn, SelectInSeq
<1>2. I \in SUBSET Nat
  OBVIOUS
<1>3. CASE I = {}
  BY <1>1, <1>3
<1>4. CASE I # {}
  <2>1. Min(I) \in I
    BY <1>2, <1>4, MinOfNats
  <2> QED BY <1>1, <1>4, <2>1
<1> QED BY <1>3, <1>4

(* An update of an entry: persist. *)
LEMMA PutUpdates ==
  ASSUME NEW j \in JournalType, Accepted(j), NEW e \in Attempt
  PROVE  Updates(j, FitJournal(Put(j, e)), e)
<1> DEFINE s == j.attempts
           i == IndexIn(j, e.id)
           p == Put(j, e)
           k == FitJournal(p)
<1>1. s \in Seq(Attempt) /\ Len(s) \in Nat /\ DOMAIN s = 1 .. Len(s) /\ j.dropped \in Nat
  BY DEF JournalType
<1>2. Len(s) <= MaxAttempts /\ Unique(s) /\ MaxAttempts \in Nat
  BY PublishAssumption DEF Accepted, Unique
<1>3. CASE i = 0
  <2>1. \A n \in 1 .. Len(s) : s[n].id # e.id
    BY <1>3, IndexProperties
  <2> DEFINE t == Append(s, e)
  <2>2. p = [j EXCEPT !.attempts = t]
    BY <1>3 DEF Put
  <2>3. /\ t \in Seq(Attempt) /\ Len(t) = Len(s) + 1
        /\ \A n \in 1 .. Len(t) : t[n] = IF n = Len(s) + 1 THEN e ELSE s[n]
        /\ \A n \in 1 .. Len(t) : n = Len(s) + 1 \/ n \in 1 .. Len(s)
        /\ DOMAIN t = 1 .. Len(t)
    BY <1>1
  <2> HIDE DEF p, t, i
  <2>4. p \in JournalType /\ p.attempts = t /\ p.dropped = j.dropped
    BY <1>1, <2>2, <2>3 DEF JournalType
  <2>5. Unique(t)
    BY <1>1, <1>2, <2>1, <2>3 DEF Unique
  <2>6. \A x \in Entries(p) : x = e \/ (x.id # e.id /\ x \in Entries(j))
    BY <2>1, <2>3, <2>4, EntriesOf
  <2>7. /\ k \in JournalType /\ Accepted(k) /\ Entries(k) \subseteq Entries(p)
        /\ Len(k.attempts) + k.dropped = Len(t) + j.dropped
    BY <1>1, <1>2, <2>3, <2>4, <2>5, FitProperties
  <2> HIDE DEF k
  <2>8. Len(t) + j.dropped = Len(s) + j.dropped + 1
    BY <1>1, <2>3
  <2>9. Len(s) + j.dropped <= Len(s) + j.dropped + 1
    BY <1>1
  <2>10. Updates(j, k, e)
    BY <2>6, <2>7, <2>8, <2>9 DEF Updates
  <2> QED BY <2>10 DEF k, p
<1>4. CASE i # 0
  <2>1. i \in 1 .. Len(s) /\ s[i].id = e.id
    BY <1>4, IndexProperties
  <2> DEFINE t == [s EXCEPT ![i] = e]
  <2>2. p = [j EXCEPT !.attempts = t]
    BY <1>4 DEF Put
  <2> HIDE DEF i
  <2>3. /\ t \in Seq(Attempt) /\ Len(t) = Len(s)
        /\ \A n \in 1 .. Len(t) : t[n] = IF n = i THEN e ELSE s[n]
        /\ DOMAIN t = 1 .. Len(t)
    BY <1>1, <2>1
  <2> HIDE DEF p, t
  <2>4. p \in JournalType /\ p.attempts = t /\ p.dropped = j.dropped
    BY <1>1, <2>2, <2>3 DEF JournalType
  <2>5. \A n \in 1 .. Len(t) : t[n].id = s[n].id
    BY <2>1, <2>3
  <2>6. Unique(t)
    BY <1>1, <1>2, <2>3, <2>5 DEF Unique
  <2>7. \A x \in Entries(p) : x = e \/ (x.id # e.id /\ x \in Entries(j))
    <3> SUFFICES ASSUME NEW n \in 1 .. Len(t)
                 PROVE  t[n] = e \/ (t[n].id # e.id /\ t[n] \in Entries(j))
      BY <2>4, EntriesOf
    <3>1. CASE n = i
      BY <2>3, <3>1
    <3>2. CASE n # i
      <4>1. t[n] = s[n] /\ n \in DOMAIN s /\ i \in DOMAIN s
        BY <1>1, <2>1, <2>3, <3>2
      <4>2. s[n].id # s[i].id
        BY <1>2, <3>2, <4>1 DEF Unique
      <4>3. s[n] \in Entries(j)
        BY <1>1, <4>1, EntriesOf
      <4> QED BY <2>1, <4>1, <4>2, <4>3
    <3> QED BY <3>1, <3>2
  <2>8. Len(t) <= MaxAttempts + 1
    BY <1>1, <1>2, <2>3
  <2>9. /\ k \in JournalType /\ Accepted(k) /\ Entries(k) \subseteq Entries(p)
        /\ Len(k.attempts) + k.dropped = Len(s) + j.dropped
    BY <2>3, <2>4, <2>6, <2>8, FitProperties
  <2>10. s[i] \in Entries(j) /\ s[i].id = e.id
    BY <1>1, <2>1, EntriesOf
  <2>11. Len(s) + j.dropped <= Len(s) + j.dropped
    BY <1>1
  <2> HIDE DEF k
  <2>12. Updates(j, k, e)
    BY <2>7, <2>9, <2>10, <2>11 DEF Updates
  <2> QED BY <2>12 DEF k, p
<1> QED BY <1>3, <1>4

(* What an autopsy changes. *)
LEMMA AutopsiedProperties ==
  ASSUME NEW j \in JournalType, NEW a
  PROVE  /\ Autopsied(j, a) \in JournalType
         /\ Len(Autopsied(j, a).attempts) = Len(j.attempts)
         /\ Autopsied(j, a).dropped = j.dropped
         /\ \A i \in 1 .. Len(j.attempts) :
              LET x == Autopsied(j, a).attempts[i]
                  y == j.attempts[i]
              IN  /\ x.id = y.id /\ x.at = y.at
                  /\ \/ x = y
                     \/ ~Finished(y) /\ x.outcome = "not_recorded" /\ ~Alive(x.id)
<1> DEFINE s == j.attempts
           n == [y \in Attempt |-> IF Finished(y) \/ y.id = a \/ Alive(y.id) THEN y
                                   ELSE [y EXCEPT !.outcome = "not_recorded"]]
           t == [i \in DOMAIN s |->
                   IF Finished(s[i]) \/ s[i].id = a \/ Alive(s[i].id) THEN s[i]
                   ELSE [s[i] EXCEPT !.outcome = "not_recorded"]]
<1>1. s \in Seq(Attempt) /\ Len(s) \in Nat /\ DOMAIN s = 1 .. Len(s) /\ j.dropped \in Nat
  BY DEF JournalType
<1>2. \A y \in Attempt :
        /\ n[y] \in Attempt /\ n[y].id = y.id /\ n[y].at = y.at
        /\ \/ n[y] = y
           \/ ~Finished(y) /\ n[y].outcome = "not_recorded" /\ ~Alive(y.id)
  BY DEF Attempt, Outcomes
<1>3. \A i \in 1 .. Len(s) : t[i] = n[s[i]] /\ s[i] \in Attempt
  BY <1>1
<1>4. Autopsied(j, a) = [j EXCEPT !.attempts = t]
  BY DEF Autopsied
<1> HIDE DEF n
<1>5. DOMAIN t = 1 .. Len(s)
  BY <1>1
<1> HIDE DEF t
<1>6. t \in [1 .. Len(s) -> Attempt]
  <2>1. \A i \in 1 .. Len(s) : t[i] \in Attempt
    BY <1>2, <1>3
  <2>2. t = [i \in 1 .. Len(s) |-> t[i]]
    BY <1>5 DEF t
  <2> QED BY <2>1, <2>2
<1>7. t \in Seq(Attempt) /\ Len(t) = Len(s)
  BY <1>1, <1>6
<1>8. /\ Autopsied(j, a) \in JournalType /\ Autopsied(j, a).attempts = t
      /\ Autopsied(j, a).dropped = j.dropped
  BY <1>1, <1>4, <1>7 DEF JournalType
<1> QED BY <1>2, <1>3, <1>7, <1>8

(* The first update of a hook, which no entry is of yet: beginIngestAttempt. *)
LEMMA BirthUpdates ==
  ASSUME NEW j \in JournalType, Accepted(j), NEW e \in Attempt,
         \A y \in Entries(j) : y.id # e.id
  PROVE  Updates(j, FitJournal([Autopsied(j, e.id) EXCEPT !.attempts = Append(@, e)]), e)
<1> DEFINE s == j.attempts
           d == Autopsied(j, e.id)
           t == Append(d.attempts, e)
           p == [d EXCEPT !.attempts = t]
           k == FitJournal(p)
<1>1. s \in Seq(Attempt) /\ Len(s) \in Nat /\ DOMAIN s = 1 .. Len(s) /\ j.dropped \in Nat
  BY DEF JournalType
<1>2. Len(s) <= MaxAttempts /\ Unique(s) /\ MaxAttempts \in Nat
  BY PublishAssumption DEF Accepted, Unique
<1>3. /\ d \in JournalType /\ Len(d.attempts) = Len(s) /\ d.dropped = j.dropped
      /\ \A i \in 1 .. Len(s) :
           /\ d.attempts[i].id = s[i].id /\ d.attempts[i].at = s[i].at
           /\ \/ d.attempts[i] = s[i]
              \/ /\ ~Finished(s[i])
                 /\ d.attempts[i].outcome = "not_recorded" /\ ~Alive(d.attempts[i].id)
  BY AutopsiedProperties
<1> HIDE DEF d
<1>4. d.attempts \in Seq(Attempt)
  BY <1>3 DEF JournalType
<1>5. \A i \in 1 .. Len(s) : s[i] \in Entries(j) /\ s[i].id # e.id
  BY EntriesOf
<1>6. /\ t \in Seq(Attempt) /\ Len(t) = Len(s) + 1 /\ DOMAIN t = 1 .. Len(t)
      /\ \A n \in 1 .. Len(t) : t[n] = IF n = Len(s) + 1 THEN e ELSE d.attempts[n]
      /\ \A n \in 1 .. Len(t) : n = Len(s) + 1 \/ n \in 1 .. Len(s)
  BY <1>1, <1>3, <1>4
<1> HIDE DEF t
<1>7. p \in JournalType /\ p.attempts = t /\ p.dropped = j.dropped
  BY <1>3, <1>6 DEF JournalType
<1> HIDE DEF p
<1>8. Unique(t)
  <2>1. \A n \in 1 .. Len(s) : t[n].id = s[n].id
    BY <1>1, <1>3, <1>6
  <2>2. t[Len(s) + 1] = e
    BY <1>1, <1>6
  <2> QED BY <1>1, <1>2, <1>5, <1>6, <2>1, <2>2 DEF Unique
<1>9. ASSUME NEW x \in Entries(p)
      PROVE  \/ x = e
             \/ /\ x.id # e.id
                /\ \E y \in Entries(j) :
                     /\ y.id = x.id /\ y.at = x.at
                     /\ \/ x = y
                        \/ ~Finished(y) /\ x.outcome = "not_recorded" /\ ~Alive(x.id)
  <2>1. PICK n \in 1 .. Len(t) : x = t[n]
    BY <1>7, EntriesOf
  <2>2. CASE n = Len(s) + 1
    BY <1>6, <2>1, <2>2
  <2>3. CASE n \in 1 .. Len(s)
    <3>1. x = d.attempts[n]
      BY <1>1, <1>6, <2>1, <2>3
    <3> QED BY <1>3, <1>5, <2>3, <3>1
  <2> QED BY <1>6, <2>2, <2>3
<1>10. Len(t) <= MaxAttempts + 1 /\ Len(t) + j.dropped = Len(s) + j.dropped + 1
  BY <1>1, <1>2, <1>6
<1>11. /\ k \in JournalType /\ Accepted(k) /\ Entries(k) \subseteq Entries(p)
       /\ Len(k.attempts) + k.dropped = Len(t) + j.dropped
  BY <1>7, <1>8, <1>10, FitProperties
<1> HIDE DEF k
<1>12. Len(s) + j.dropped <= Len(s) + j.dropped + 1
  BY <1>1
<1>13. Updates(j, k, e)
  BY <1>9, <1>10, <1>11, <1>12 DEF Updates
<1> QED BY <1>13 DEF k, p, t, d

-----------------------------------------------------------------------------
(* The invariant *)

Stay == [ws : Workstreams, from : Nat]
Turn == [text : Texts, ws : Workstreams]
Process == [pc : {"new", "triggered", "open", "ending", "gone"},
            polled : BOOLEAN, saved : BOOLEAN, turn : 0 .. scene.turns, mem : Attempt]
Reader == [pc : {"members", "feed", "journal", "answered"},
           moves : Seq(Stay), seen : Seq(Turn), journal : JournalType,
           verdict : [Workstreams -> Verdicts]]

Shapes ==
    /\ scene \in Scene /\ now \in Nat /\ faults \in 0 .. scene.faults
    /\ moves \in Seq(Stay) /\ moves # <<>>
    /\ turns \in Seq(Turn) /\ Len(turns) <= scene.turns
    /\ feed \in 0 .. Len(turns)
    /\ hook \in [Attempts -> Process]
    /\ reader \in Reader
    /\ appended \in SUBSET Attempts

(* Every attempt that was appended is in the journal or counted. *)
Counted == Cardinality(appended) <= Len(journal.attempts) + journal.dropped

(* A hook's attempt in memory is its own, and has an outcome from the moment
   it is decided. *)
Minds ==
    \A a \in Attempts :
        /\ hook[a].mem.id = a
        /\ hook[a].pc \in {"new", "triggered", "open"} => ~Finished(hook[a].mem)

(* An entry was written by its hook, and is what the hook remembers, or behind
   it, or the verdict of an autopsy. *)
Written ==
    \A e \in Entries(journal) :
        /\ e.id \in appended
        /\ hook[e.id].pc \in {"open", "ending", "gone"}
        /\ \/ e = hook[e.id].mem
           \/ e.outcome = "not_recorded" /\ ~Alive(e.id)
           \/ ~Finished(e)

JournalInv ==
    /\ Shapes
    /\ journal \in JournalType /\ Accepted(journal)
    /\ Counted /\ Minds /\ Written

Kept == \A e \in Entries(journal) : Finished(e) =>
          \A x \in Entries(journal') : x.id = e.id => x = e

LEMMA JournalInvSound == JournalInv => JournalSound
<1> SUFFICES ASSUME JournalInv PROVE JournalSound
  OBVIOUS
<1>1. Entries(journal) \subseteq Attempt /\ journal.dropped \in Nat
  BY EntriesOf DEF JournalInv, JournalType
<1>2. TypeOK
  BY <1>1 DEF JournalInv, Shapes, TypeOK, Process, Reader
<1>3. \A e \in Entries(journal) :
         \/ e = hook[e.id].mem
         \/ e.outcome = "not_recorded" /\ ~Alive(e.id)
         \/ e.outcome = None /\ hook[e.id].pc # "new"
  BY DEF JournalInv, Written, Finished
<1> QED BY <1>2, <1>3 DEF JournalInv, JournalSound, Counted

LEMMA InitJournalInv == Init => JournalInv
<1> SUFFICES ASSUME Init PROVE JournalInv
  OBVIOUS
<1> DEFINE m(a) == [id |-> a, at |-> 0, says |-> None, blocker |-> FALSE,
                    outcome |-> None]
           h(a) == [pc |-> "new", polled |-> FALSE, saved |-> FALSE, turn |-> 0,
                    mem |-> m(a)]
<1>1. scene \in Scene /\ scene.turns \in Nat /\ scene.faults \in Nat
  BY PublishAssumption DEF Init, Scene
<1>2. ASSUME NEW a \in Attempts
      PROVE  h(a) \in Process /\ h(a).pc = "new" /\ h(a).mem.id = a /\ ~Finished(h(a).mem)
  <2>1. m(a) \in Attempt
    BY DEF Attempt
  <2> QED BY <1>1, <2>1 DEF Process, Finished
<1>3. hook = [a \in Attempts |-> h(a)]
  BY DEF Init
<1> HIDE DEF h
<1>4. hook \in [Attempts -> Process] /\ \A a \in Attempts : hook[a] = h(a)
  BY <1>2, <1>3
<1>5. journal = [attempts |-> <<>>, dropped |-> 0]
  BY DEF Init
<1>6. journal \in JournalType /\ Len(journal.attempts) = 0 /\ journal.dropped = 0
  BY <1>5 DEF JournalType
<1>7. Entries(journal) = {}
  BY <1>6, EntriesOf
<1>8. Accepted(journal)
  BY <1>6, EntriesOf, PublishAssumption DEF Accepted
<1>9. Counted
  <2>1. Cardinality(appended) = 0
    BY FS_EmptySet DEF Init
  <2> QED BY <1>6, <2>1 DEF Counted
<1>10. NoVerdicts \in [Workstreams -> Verdicts]
  BY DEF NoVerdicts, Verdicts
<1>11. reader \in Reader
  <2>1. reader = [pc |-> "members", moves |-> <<>>, seen |-> <<>>,
                  journal |-> journal, verdict |-> NoVerdicts]
    BY DEF Init
  <2>2. <<>> \in Seq(Stay) /\ <<>> \in Seq(Turn)
    OBVIOUS
  <2> QED BY <1>6, <1>10, <2>1, <2>2 DEF Reader
<1>12. moves \in Seq(Stay) /\ moves # <<>>
  BY DEF Init, Stay
<1>13. turns \in Seq(Turn) /\ Len(turns) = 0 /\ now \in Nat /\ feed = 0 /\ faults = 0
       /\ appended \in SUBSET Attempts
  BY DEF Init
<1>14. Shapes
  BY <1>1, <1>4, <1>11, <1>12, <1>13 DEF Shapes
<1>15. Minds
  BY <1>2, <1>4 DEF Minds
<1> QED BY <1>6, <1>7, <1>8, <1>9, <1>14, <1>15 DEF JournalInv, Written

(* A hook that is alive writes its entry, or one decided before. *)
LEMMA UpdateStep ==
  ASSUME JournalInv,
         NEW a \in Attempts,
         Alive(a),
         \A q \in Attempts : q # a => hook'[q] = hook[q],
         hook'[a].pc \in {"open", "ending", "gone"},
         hook'[a].mem.id = a,
         hook'[a].pc = "open" => ~Finished(hook'[a].mem),
         hook[a].pc = "ending" => hook'[a].mem = hook[a].mem,
         Updates(journal, journal', hook'[a].mem),
         appended' = appended \union {a}
  PROVE  /\ journal' \in JournalType /\ Accepted(journal)'
         /\ Counted' /\ Minds' /\ Written' /\ Kept
<1> DEFINE e == hook'[a].mem
           F == Entries(journal)
           G == Entries(journal')
<1>1. /\ journal' \in JournalType /\ Accepted(journal')
      /\ \A x \in G :
           \/ x = e
           \/ /\ x.id # a
              /\ \E y \in F :
                   /\ y.id = x.id
                   /\ \/ x = y
                      \/ ~Finished(y) /\ x.outcome = "not_recorded" /\ ~Alive(x.id)
      /\ Len(journal.attempts) + journal.dropped
           <= Len(journal'.attempts) + journal'.dropped
      /\ (\A y \in F : y.id # a) =>
           Len(journal.attempts) + journal.dropped + 1
             = Len(journal'.attempts) + journal'.dropped
  BY DEF Updates
<1>2. /\ appended \in SUBSET Attempts /\ IsFiniteSet(appended)
      /\ journal \in JournalType
  BY PublishAssumption, FS_Subset DEF JournalInv, Shapes
<1>3. \A y \in F : /\ y \in Attempt /\ y.id \in Attempts /\ y.id \in appended
                   /\ hook[y.id].pc \in {"open", "ending", "gone"}
                   /\ \/ y = hook[y.id].mem
                      \/ y.outcome = "not_recorded" /\ ~Alive(y.id)
                      \/ ~Finished(y)
  BY <1>2, EntriesOf DEF JournalInv, Written, Attempt
<1>4. \A q \in Attempts : q # a => (Alive(q)' <=> Alive(q))
  BY DEF Alive
<1>5. Counted'
  <2>1. CASE a \in appended
    <3>1. appended' = appended
      BY <2>1
    <3>2. Cardinality(appended) <= Len(journal.attempts) + journal.dropped
      BY DEF JournalInv, Counted
    <3>3. Cardinality(appended) \in Nat
      BY <1>2, FS_CardinalityType
    <3>4. /\ Len(journal.attempts) + journal.dropped \in Nat
          /\ Len(journal'.attempts) + journal'.dropped \in Nat
      BY <1>1, <1>2 DEF JournalType
    <3>5. Cardinality(appended) <= Len(journal'.attempts) + journal'.dropped
      BY <1>1, <3>2, <3>3, <3>4
    <3> QED BY <3>1, <3>5 DEF Counted
  <2>2. CASE a \notin appended
    <3>1. Cardinality(appended') = Cardinality(appended) + 1
      BY <1>2, <2>2, FS_AddElement
    <3>2. \A y \in F : y.id # a
      BY <1>3, <2>2
    <3>3. Cardinality(appended) <= Len(journal.attempts) + journal.dropped
      BY DEF JournalInv, Counted
    <3>4. /\ Len(journal.attempts) + journal.dropped \in Nat
          /\ Len(journal'.attempts) + journal'.dropped \in Nat
          /\ Cardinality(appended) \in Nat
      BY <1>1, <1>2, FS_CardinalityType DEF JournalType
    <3>5. Cardinality(appended') <= Len(journal'.attempts) + journal'.dropped
      BY <1>1, <3>1, <3>2, <3>3, <3>4
    <3> QED BY <3>5 DEF Counted
  <2> QED BY <2>1, <2>2
<1>6. Minds'
  <2> SUFFICES ASSUME NEW q \in Attempts
               PROVE  /\ hook'[q].mem.id = q
                      /\ hook'[q].pc \in {"new", "triggered", "open"} =>
                           ~Finished(hook'[q].mem)
    BY DEF Minds, Finished
  <2>1. CASE q = a
    BY <2>1
  <2>2. CASE q # a
    BY <2>2 DEF JournalInv, Minds
  <2> QED BY <2>1, <2>2
<1>7. Written'
  <2> SUFFICES ASSUME NEW x \in G
               PROVE  /\ x.id \in appended'
                      /\ hook'[x.id].pc \in {"open", "ending", "gone"}
                      /\ \/ x = hook'[x.id].mem
                         \/ x.outcome = "not_recorded" /\ ~Alive(x.id)'
                         \/ ~Finished(x)
    BY DEF Written, Finished
  <2>1. CASE x = e
    BY <2>1
  <2>2. CASE x # e
    <3>1. PICK y \in F :
            /\ y.id = x.id /\ x.id # a
            /\ \/ x = y
               \/ ~Finished(y) /\ x.outcome = "not_recorded" /\ ~Alive(x.id)
      BY <1>1, <2>2
    <3>2. x.id \in Attempts /\ hook'[x.id] = hook[x.id] /\ (Alive(x.id)' <=> Alive(x.id))
      BY <1>3, <1>4, <3>1
    <3> QED BY <1>3, <3>1, <3>2
  <2> QED BY <2>1, <2>2
<1>8. Kept
  <2> SUFFICES ASSUME NEW y \in F, Finished(y), NEW x \in G, x.id = y.id
               PROVE  x = y
    BY DEF Kept
  <2>1. CASE x = e
    <3>1. y.id = a
      BY <2>1
    <3>2. hook[a].pc \in {"open", "ending"} /\ y = hook[a].mem
      BY <1>3, <3>1 DEF Alive
    <3>3. hook[a].pc = "ending"
      BY <3>2 DEF JournalInv, Minds
    <3> QED BY <2>1, <3>2, <3>3
  <2>2. CASE x # e
    <3>1. PICK z \in F :
            z.id = x.id /\ (x = z \/ ~Finished(z))
      BY <1>1, <2>2
    <3>2. z = y
      <4>1. PICK m \in 1 .. Len(journal.attempts) : z = journal.attempts[m]
        BY <1>2, EntriesOf
      <4>2. PICK n \in 1 .. Len(journal.attempts) : y = journal.attempts[n]
        BY <1>2, EntriesOf
      <4>3. m = n
        BY <1>2, <3>1, <4>1, <4>2, EntriesOf DEF JournalInv, Accepted
      <4> QED BY <4>1, <4>2, <4>3
    <3> QED BY <3>1, <3>2
  <2> QED BY <2>1, <2>2
<1> QED BY <1>1, <1>5, <1>6, <1>7, <1>8

(* A hook goes on without a record of it. *)
LEMMA MissStep ==
  ASSUME JournalInv,
         NEW a \in Attempts,
         Alive(a),
         \A q \in Attempts : q # a => hook'[q] = hook[q],
         hook'[a].pc \in {"open", "ending", "gone"},
         hook'[a].mem.id = a,
         hook'[a].pc = "open" => ~Finished(hook'[a].mem),
         hook[a].pc = "ending" => hook'[a].mem = hook[a].mem,
         journal' = journal, appended' = appended
  PROVE  /\ journal' \in JournalType /\ Accepted(journal)'
         /\ Counted' /\ Minds' /\ Written' /\ Kept
<1> DEFINE F == Entries(journal)
<1>1. journal' \in JournalType /\ Accepted(journal)'
  BY DEF JournalInv, Accepted
<1>2. Counted'
  BY DEF JournalInv, Counted
<1>3. Minds'
  <2> SUFFICES ASSUME NEW q \in Attempts
               PROVE  /\ hook'[q].mem.id = q
                      /\ hook'[q].pc \in {"new", "triggered", "open"} =>
                           ~Finished(hook'[q].mem)
    BY DEF Minds, Finished
  <2>1. CASE q = a
    BY <2>1
  <2>2. CASE q # a
    BY <2>2 DEF JournalInv, Minds
  <2> QED BY <2>1, <2>2
<1>4. Written'
  <2> SUFFICES ASSUME NEW x \in F
               PROVE  /\ x.id \in appended
                      /\ hook'[x.id].pc \in {"open", "ending", "gone"}
                      /\ \/ x = hook'[x.id].mem
                         \/ x.outcome = "not_recorded" /\ ~Alive(x.id)'
                         \/ ~Finished(x)
    BY DEF Written, Finished
  <2>1. /\ x.id \in appended /\ x.id \in Attempts
        /\ hook[x.id].pc \in {"open", "ending", "gone"}
        /\ \/ x = hook[x.id].mem
           \/ x.outcome = "not_recorded" /\ ~Alive(x.id)
           \/ ~Finished(x)
    BY DEF JournalInv, Written, Shapes
  <2>2. CASE x.id = a
    <3>1. x = hook[a].mem \/ ~Finished(x)
      BY <2>1, <2>2
    <3>2. CASE hook[a].pc = "ending"
      BY <2>1, <2>2, <3>1, <3>2
    <3>3. CASE hook[a].pc # "ending"
      <4>1. hook[a].pc \in {"triggered", "open"}
        BY <3>3 DEF Alive
      <4>2. ~Finished(x)
        BY <3>1, <4>1 DEF JournalInv, Minds
      <4> QED BY <2>1, <2>2, <4>2
    <3> QED BY <3>2, <3>3
  <2>3. CASE x.id # a
    <3>1. hook'[x.id] = hook[x.id] /\ (Alive(x.id)' <=> Alive(x.id))
      BY <2>1, <2>3 DEF Alive
    <3> QED BY <2>1, <3>1
  <2> QED BY <2>2, <2>3
<1>5. Kept
  <2>1. ASSUME NEW y \in F, NEW x \in F, x.id = y.id PROVE x = y
    <3>1. PICK m \in 1 .. Len(journal.attempts) : x = journal.attempts[m]
      BY EntriesOf DEF JournalInv
    <3>2. PICK n \in 1 .. Len(journal.attempts) : y = journal.attempts[n]
      BY EntriesOf DEF JournalInv
    <3>3. m = n
      BY <2>1, <3>1, <3>2, EntriesOf DEF JournalInv, Accepted
    <3> QED BY <3>1, <3>2, <3>3
  <2> QED BY <2>1 DEF Kept
<1> QED BY <1>1, <1>2, <1>3, <1>4, <1>5

-----------------------------------------------------------------------------
(* One lemma for each kind of step *)

Preserved == JournalInv' /\ Kept

(* What a step leaves as it was. *)
LEMMA UnwrittenStep ==
  ASSUME JournalInv, Shapes', Minds', UNCHANGED <<journal, appended>>,
         \A q \in Attempts :
           hook[q].pc \in {"open", "ending", "gone"} => hook'[q] = hook[q],
         \A q \in Attempts :
           hook[q].pc \notin {"open", "ending", "gone"} =>
             hook'[q].pc \notin {"ending"}
  PROVE  Preserved
<1> DEFINE F == Entries(journal)
<1>1. journal' \in JournalType /\ Accepted(journal)'
  BY DEF JournalInv, Accepted
<1>2. Counted'
  BY DEF JournalInv, Counted
<1>3. Written'
  <2> SUFFICES ASSUME NEW x \in F
               PROVE  /\ x.id \in appended
                      /\ hook'[x.id].pc \in {"open", "ending", "gone"}
                      /\ \/ x = hook'[x.id].mem
                         \/ x.outcome = "not_recorded" /\ ~Alive(x.id)'
                         \/ ~Finished(x)
    BY DEF Written, Finished
  <2>1. /\ x.id \in appended /\ x.id \in Attempts
        /\ hook[x.id].pc \in {"open", "ending", "gone"}
        /\ \/ x = hook[x.id].mem
           \/ x.outcome = "not_recorded" /\ ~Alive(x.id)
           \/ ~Finished(x)
    BY DEF JournalInv, Written, Shapes
  <2>2. hook'[x.id] = hook[x.id] /\ (Alive(x.id)' <=> Alive(x.id))
    BY <2>1 DEF Alive
  <2> QED BY <2>1, <2>2
<1>4. Kept
  <2>1. ASSUME NEW y \in F, NEW x \in F, x.id = y.id PROVE x = y
    <3>1. PICK m \in 1 .. Len(journal.attempts) : x = journal.attempts[m]
      BY EntriesOf DEF JournalInv
    <3>2. PICK n \in 1 .. Len(journal.attempts) : y = journal.attempts[n]
      BY EntriesOf DEF JournalInv
    <3>3. m = n
      BY <2>1, <3>1, <3>2, EntriesOf DEF JournalInv, Accepted
    <3> QED BY <3>1, <3>2, <3>3
  <2> QED BY <2>1 DEF Kept
<1> QED BY <1>1, <1>2, <1>3, <1>4 DEF Preserved, JournalInv

LEMMA MoveStep ==
  ASSUME JournalInv, NEW w \in Workstreams, Move(w)
  PROVE  Preserved
<1>1. UNCHANGED <<scene, turns, feed, hook, journal, faults, reader, appended>>
  BY DEF Move
<1>2. now' \in Nat /\ moves' = Append(moves, [ws |-> w, from |-> now'])
  BY DEF Move, JournalInv, Shapes
<1>3. moves' \in Seq(Stay) /\ moves' # <<>>
  <2>1. [ws |-> w, from |-> now'] \in Stay
    BY <1>2 DEF Stay
  <2>2. moves \in Seq(Stay)
    BY DEF JournalInv, Shapes
  <2> QED BY <1>2, <2>1, <2>2
<1>4. Shapes'
  BY <1>1, <1>2, <1>3 DEF JournalInv, Shapes, Process
<1>5. Minds'
  BY <1>1 DEF JournalInv, Minds
<1> QED BY <1>1, <1>4, <1>5, UnwrittenStep

LEMMA StartStep ==
  ASSUME JournalInv, NEW a \in Attempts,
         \/ \E text \in Texts : EndTurn(a, text)
         \/ Prompt(a)
  PROVE  Preserved
<1>1. PICK says \in Texts \union {None} : Start(a, says)
  BY DEF EndTurn, Prompt
<1>2. turns' \in Seq(Turn) /\ Len(turns') <= scene.turns /\ Len(turns) <= Len(turns')
  <2>1. /\ turns \in Seq(Turn) /\ Len(turns) <= scene.turns /\ scene.turns \in Nat
        /\ moves \in Seq(Stay) /\ moves # <<>>
    BY DEF JournalInv, Shapes, Scene
  <2>2. CASE turns' = turns
    BY <2>1, <2>2
  <2>3. ASSUME NEW text \in Texts, EndTurn(a, text)
        PROVE  turns' \in Seq(Turn) /\ Len(turns') <= scene.turns /\ Len(turns) <= Len(turns')
    <3>1. moves[Len(moves)] \in Stay
      BY <2>1
    <3> DEFINE n == [text |-> text, ws |-> moves[Len(moves)].ws]
    <3>2. n \in Turn
      BY <3>1 DEF Turn, Stay
    <3>3. turns' = Append(turns, n) /\ Len(turns) < scene.turns
      BY <2>3 DEF EndTurn
    <3> HIDE DEF n
    <3> QED BY <2>1, <3>2, <3>3
  <2> QED BY <2>2, <2>3 DEF Prompt
<1>3. /\ UNCHANGED <<scene, moves, feed, journal, faults, reader, appended>>
      /\ now' \in Nat /\ hook[a].pc = "new"
  BY <1>1 DEF Start, JournalInv, Shapes
<1> DEFINE m == [id |-> a, at |-> now', says |-> says, blocker |-> FALSE, outcome |-> None]
           h == [pc |-> "triggered", polled |-> FALSE, saved |-> FALSE,
                 turn |-> Len(turns'), mem |-> m]
<1>4. hook' = [hook EXCEPT ![a] = h]
  BY <1>1 DEF Start
<1>5. m \in Attempt /\ m.id = a /\ ~Finished(m)
  BY <1>3 DEF Attempt, Finished
<1> HIDE DEF m
<1>6. Len(turns') \in 0 .. scene.turns /\ scene.turns \in Nat
  BY <1>2 DEF JournalInv, Shapes, Scene
<1>7. h \in Process /\ h.mem = m /\ h.pc = "triggered"
  BY <1>5, <1>6 DEF Process
<1> HIDE DEF h
<1>8. hook \in [Attempts -> Process]
  BY DEF JournalInv, Shapes
<1>9. /\ hook' \in [Attempts -> Process]
      /\ \A q \in Attempts : hook'[q] = IF q = a THEN h ELSE hook[q]
  BY <1>4, <1>7, <1>8
<1>10. Minds'
  <2> SUFFICES ASSUME NEW q \in Attempts
               PROVE  /\ hook'[q].mem.id = q
                      /\ hook'[q].pc \in {"new", "triggered", "open"} =>
                           ~Finished(hook'[q].mem)
    BY DEF Minds, Finished
  <2> QED BY <1>5, <1>7, <1>9 DEF JournalInv, Minds
<1>11. Shapes'
  <2>1. feed' \in 0 .. Len(turns')
    BY <1>2, <1>3 DEF JournalInv, Shapes
  <2>2. hook' \in [Attempts -> Process']
    BY <1>3, <1>9 DEF Process
  <2> QED BY <1>2, <1>3, <2>1, <2>2 DEF JournalInv, Shapes
<1> QED BY <1>3, <1>7, <1>9, <1>10, <1>11, UnwrittenStep

(* The steps of a hook that is alive: it writes its entry, or does not. *)
LEMMA HookStepInv ==
  ASSUME JournalInv, NEW a \in Attempts, Alive(a),
         UNCHANGED <<scene, now, moves, turns, reader>>,
         feed' \in 0 .. Len(turns), faults' \in 0 .. scene.faults,
         \E h \in Process :
           /\ hook' = [hook EXCEPT ![a] = h]
           /\ h.pc \in {"open", "ending", "gone"}
           /\ h.mem.id = a
           /\ h.pc = "open" => ~Finished(h.mem)
           /\ hook[a].pc = "ending" => h.mem = hook[a].mem
           /\ \/ Updates(journal, journal', h.mem) /\ appended' = appended \union {a}
              \/ UNCHANGED <<journal, appended>>
  PROVE  Preserved
<1>1. PICK h \in Process :
        /\ hook' = [hook EXCEPT ![a] = h]
        /\ h.pc \in {"open", "ending", "gone"}
        /\ h.mem.id = a
        /\ h.pc = "open" => ~Finished(h.mem)
        /\ hook[a].pc = "ending" => h.mem = hook[a].mem
        /\ \/ Updates(journal, journal', h.mem) /\ appended' = appended \union {a}
           \/ UNCHANGED <<journal, appended>>
  OBVIOUS
<1>2. hook \in [Attempts -> Process]
  BY DEF JournalInv, Shapes
<1>3. /\ hook' \in [Attempts -> Process]
      /\ hook'[a] = h
      /\ \A q \in Attempts : q # a => hook'[q] = hook[q]
  BY <1>1, <1>2
<1>4. Shapes'
  <2>1. hook' \in [Attempts -> Process']
    BY <1>3 DEF Process
  <2>2. appended' \in SUBSET Attempts
    BY <1>1 DEF JournalInv, Shapes
  <2> QED BY <2>1, <2>2 DEF JournalInv, Shapes
<1>5. /\ journal' \in JournalType /\ Accepted(journal)'
      /\ Counted' /\ Minds' /\ Written' /\ Kept
  <2>1. CASE Updates(journal, journal', h.mem) /\ appended' = appended \union {a}
    BY <1>1, <1>3, <2>1, UpdateStep
  <2>2. CASE UNCHANGED <<journal, appended>>
    BY <1>1, <1>3, <2>2, MissStep
  <2> QED BY <1>1, <2>1, <2>2
<1> QED BY <1>4, <1>5 DEF Preserved, JournalInv

LEMMA BirthStep ==
  ASSUME JournalInv, NEW a \in Attempts, Birth(a)
  PROVE  Preserved
<1> DEFINE h == [hook[a] EXCEPT !.pc = "open"]
<1>1. /\ hook[a] \in Process /\ hook[a].mem.id = a /\ ~Finished(hook[a].mem)
      /\ hook[a].pc = "triggered" /\ hook[a].mem \in Attempt
  BY DEF Birth, JournalInv, Shapes, Minds, Process
<1>2. h \in Process /\ h.pc = "open" /\ h.mem = hook[a].mem
  BY <1>1 DEF Process
<1>3. hook' = [hook EXCEPT ![a] = h]
  BY DEF Birth
<1> HIDE DEF h
<1>4. UNCHANGED <<scene, now, moves, turns, reader>> /\ UNCHANGED feed
  BY DEF Birth, Unread
<1>5. feed' \in 0 .. Len(turns) /\ faults' \in 0 .. scene.faults
  BY <1>4 DEF Birth, Miss, JournalInv, Shapes, Scene
<1>6. Alive(a)
  BY <1>1 DEF Alive
<1>7. CASE UNCHANGED <<journal, appended>>
  BY <1>1, <1>2, <1>3, <1>4, <1>5, <1>6, <1>7, HookStepInv
<1>8. CASE Replace(a, [Autopsied(journal, a) EXCEPT !.attempts = Append(@, hook[a].mem)])
  <2>1. \A y \in Entries(journal) : y.id # a
    BY <1>1 DEF JournalInv, Written
  <2>2. Updates(journal, journal', hook[a].mem) /\ appended' = appended \union {a}
    BY <1>1, <1>8, <2>1, BirthUpdates DEF Replace, JournalInv
  <2> QED BY <1>1, <1>2, <1>3, <1>4, <1>5, <1>6, <2>2, HookStepInv
<1> QED BY <1>7, <1>8 DEF Birth, Miss

LEMMA PollStep ==
  ASSUME JournalInv, NEW a \in Attempts, NEW k \in Nat, NEW blocker \in BOOLEAN,
         Poll(a, k, blocker)
  PROVE  Preserved
<1> DEFINE e == [hook[a].mem EXCEPT !.blocker = blocker]
           g(saved) == [hook[a] EXCEPT !.mem = e, !.polled = TRUE, !.saved = saved]
<1>1. /\ hook[a] \in Process /\ hook[a].mem.id = a /\ ~Finished(hook[a].mem)
      /\ hook[a].pc = "open" /\ hook[a].mem \in Attempt
  BY DEF Poll, JournalInv, Shapes, Minds, Process
<1>2. e \in Attempt /\ e.id = a /\ ~Finished(e)
  BY <1>1 DEF Attempt, Finished
<1>3. \/ Persist(a, e) /\ UNCHANGED faults
      \/ UNCHANGED <<journal, appended>> /\ faults' \in {faults, faults + 1}
         /\ (faults' # faults => faults < scene.faults)
  BY DEF Poll, Miss
<1>4. \E saved \in BOOLEAN : hook' = [hook EXCEPT ![a] = g(saved)]
  <2>1. hook \in [Attempts -> Process] /\ hook[a].saved \in BOOLEAN
    BY <1>1 DEF JournalInv, Shapes, Process
  <2>2. \E saved \in BOOLEAN :
          hook' = [hook EXCEPT ![a].mem = e, ![a].polled = TRUE, ![a].saved = saved]
    BY <2>1 DEF Poll
  <2> HIDE DEF e
  <2> QED BY <2>1, <2>2
<1> HIDE DEF e
<1>5. PICK h \in Process :
        hook' = [hook EXCEPT ![a] = h] /\ h.mem = e /\ h.pc = "open"
  <2>1. PICK saved \in BOOLEAN : hook' = [hook EXCEPT ![a] = g(saved)]
    BY <1>4
  <2>2. g(saved) \in Process /\ g(saved).mem = e /\ g(saved).pc = "open"
    BY <1>1, <1>2 DEF Process
  <2> HIDE DEF g
  <2> QED BY <2>1, <2>2
<1>6. UNCHANGED <<scene, now, moves, turns, reader>> /\ feed' \in 0 .. Len(turns)
  BY DEF Poll, Unread, JournalInv, Shapes
<1>7. faults' \in 0 .. scene.faults
  BY <1>3 DEF JournalInv, Shapes, Scene
<1>8. Alive(a)
  BY <1>1 DEF Alive
<1>9. Persist(a, e) => Updates(journal, journal', e) /\ appended' = appended \union {a}
  BY <1>2, PutUpdates DEF Persist, Replace, JournalInv
<1> QED BY <1>1, <1>2, <1>3, <1>5, <1>6, <1>7, <1>8, <1>9, HookStepInv

LEMMA WriteOutcomeStep ==
  ASSUME JournalInv, NEW a \in Attempts, NEW again \in BOOLEAN, Alive(a),
         \E e \in Attempt :
           /\ e.id = a
           /\ hook[a].pc = "ending" => e = hook[a].mem
           /\ WriteOutcome(a, e, again)
  PROVE  Preserved
<1>1. PICK e \in Attempt :
        /\ e.id = a
        /\ hook[a].pc = "ending" => e = hook[a].mem
        /\ WriteOutcome(a, e, again)
  OBVIOUS
<1> DEFINE g(pc) == [hook[a] EXCEPT !.pc = pc, !.mem = e]
<1>2. hook[a] \in Process /\ hook \in [Attempts -> Process]
  BY DEF JournalInv, Shapes
<1>3. \E pc \in {"ending", "gone"} : hook' = [hook EXCEPT ![a].pc = pc, ![a].mem = e]
  BY <1>1 DEF WriteOutcome
<1>4. PICK pc \in {"ending", "gone"} : hook' = [hook EXCEPT ![a] = g(pc)]
  BY <1>2, <1>3
<1>5. g(pc) \in Process /\ g(pc).pc = pc /\ g(pc).mem = e
  BY <1>2 DEF Process
<1>6. PICK h \in Process :
        hook' = [hook EXCEPT ![a] = h] /\ h.mem = e /\ h.pc \in {"ending", "gone"}
  <2> HIDE DEF g
  <2> QED BY <1>4, <1>5
<1>7. \/ Persist(a, e) /\ UNCHANGED faults
      \/ UNCHANGED <<journal, appended>> /\ faults < scene.faults /\ faults' = faults + 1
  BY <1>1 DEF WriteOutcome, Miss
<1>8. /\ UNCHANGED <<scene, now, moves, turns, reader>>
      /\ feed' \in 0 .. Len(turns) /\ faults' \in 0 .. scene.faults
  <2>1. UNCHANGED <<scene, now, moves, turns, reader>> /\ UNCHANGED feed
    BY <1>1 DEF WriteOutcome, Unread
  <2> QED BY <1>7, <2>1 DEF JournalInv, Shapes, Scene
<1>9. Persist(a, e) => Updates(journal, journal', e) /\ appended' = appended \union {a}
  BY <1>1, PutUpdates DEF Persist, Replace, JournalInv
<1> QED BY <1>1, <1>6, <1>7, <1>8, <1>9, HookStepInv

LEMMA FinishStep ==
  ASSUME JournalInv, NEW a \in Attempts,
         (\E o \in Outcomes : Finish(a, o)) \/ FinishAgain(a)
  PROVE  Preserved
<1>1. hook[a].mem \in Attempt /\ hook[a].mem.id = a
  BY DEF JournalInv, Shapes, Process, Minds
<1>2. CASE FinishAgain(a)
  BY <1>1, <1>2, WriteOutcomeStep DEF FinishAgain, Alive
<1>3. ASSUME NEW o \in Outcomes, Finish(a, o) PROVE Preserved
  <2> DEFINE e == [hook[a].mem EXCEPT !.outcome = o]
  <2>1. e \in Attempt /\ e.id = a
    BY <1>1 DEF Attempt
  <2>2. hook[a].pc = "open" /\ WriteOutcome(a, e, TRUE)
    BY <1>3 DEF Finish, Outcome
  <2> HIDE DEF e
  <2>3. Alive(a)
    BY <2>2 DEF Alive
  <2> QED BY <2>1, <2>2, <2>3, WriteOutcomeStep
<1> QED BY <1>2, <1>3

LEMMA DieStep ==
  ASSUME JournalInv, NEW a \in Attempts, Die(a)
  PROVE  Preserved
<1> DEFINE h == [hook[a] EXCEPT !.pc = "gone"]
<1>1. hook[a] \in Process /\ hook[a].mem.id = a /\ Alive(a)
  BY DEF Die, JournalInv, Shapes, Minds
<1>2. h \in Process /\ h.pc = "gone" /\ h.mem = hook[a].mem
  BY <1>1 DEF Process
<1>3. hook' = [hook EXCEPT ![a] = h]
  BY DEF Die
<1> HIDE DEF h
<1>4. UNCHANGED <<scene, now, moves, turns, reader>> /\ UNCHANGED <<feed, journal, appended>>
  BY DEF Die, Unread
<1>5. feed' \in 0 .. Len(turns) /\ faults' \in 0 .. scene.faults
  BY <1>4 DEF Die, JournalInv, Shapes, Scene
<1> QED BY <1>1, <1>2, <1>3, <1>4, <1>5, HookStepInv

(* A reader changes nothing but what it knows. *)
LEMMA VerdictType ==
  ASSUME NEW j, NEW ms, NEW seen, NEW w
  PROVE  Verdict(j, ms, seen, w) \in Verdicts
BY DEF Verdict, Verdicts, NormalizeAttempt

LEMMA ReadStep ==
  ASSUME JournalInv, ReadMembers \/ ReadFeed \/ ReadJournal
  PROVE  Preserved
<1>1. UNCHANGED <<scene, now, moves, turns, feed, hook, journal, faults, appended>>
  BY DEF ReadMembers, ReadFeed, ReadJournal
<1>2. /\ reader \in Reader /\ moves \in Seq(Stay) /\ turns \in Seq(Turn)
      /\ feed \in 0 .. Len(turns) /\ journal \in JournalType
  BY DEF JournalInv, Shapes
<1>3. reader' \in Reader
  <2>1. CASE ReadMembers
    BY <1>2, <2>1 DEF ReadMembers, Reader
  <2>2. CASE ReadFeed
    <3> DEFINE r == SubSeq(turns, 1, feed)
    <3>1. r \in Seq(Turn)
      BY <1>2, SubSeqProperties
    <3>2. reader' = [reader EXCEPT !.pc = "journal", !.seen = r]
      BY <2>2 DEF ReadFeed
    <3> HIDE DEF r
    <3> QED BY <1>2, <3>1, <3>2 DEF Reader
  <2>3. CASE ReadJournal
    <3> DEFINE v == [w \in Workstreams |->
                       Verdict(journal, reader.moves, reader.seen, w)]
    <3>1. v \in [Workstreams -> Verdicts]
      BY VerdictType
    <3>2. reader' = [reader EXCEPT !.pc = "answered", !.journal = journal, !.verdict = v]
      BY <2>3 DEF ReadJournal
    <3> HIDE DEF v
    <3> QED BY <1>2, <3>1, <3>2 DEF Reader
  <2> QED BY <2>1, <2>2, <2>3
<1>4. Shapes'
  BY <1>1, <1>3 DEF JournalInv, Shapes, Process
<1>5. Minds'
  BY <1>1 DEF JournalInv, Minds
<1> QED BY <1>1, <1>4, <1>5, UnwrittenStep

LEMMA StutterStep ==
  ASSUME JournalInv, UNCHANGED vars
  PROVE  Preserved
<1>1. UNCHANGED <<scene, now, moves, turns, feed, hook, journal, faults, reader, appended>>
  BY DEF vars
<1>2. Shapes' /\ Minds'
  BY <1>1 DEF JournalInv, Shapes, Process, Minds
<1> QED BY <1>1, <1>2, UnwrittenStep

LEMMA StepJournalInv ==
  ASSUME JournalInv, [Next]_vars
  PROVE  Preserved
<1>1. ASSUME NEW w \in Workstreams, Move(w) PROVE Preserved
  BY <1>1, MoveStep
<1>2. ASSUME NEW a \in Attempts, (\E text \in Texts : EndTurn(a, text)) \/ Prompt(a)
      PROVE  Preserved
  BY <1>2, StartStep
<1>3. ASSUME NEW a \in Attempts, HookStep(a) PROVE Preserved
  <2>1. CASE Birth(a)
    BY <2>1, BirthStep
  <2>2. ASSUME NEW k \in 0 .. scene.turns, NEW blocker \in BOOLEAN, Poll(a, k, blocker)
        PROVE  Preserved
    BY <2>2, PollStep
  <2>3. CASE (\E o \in Outcomes : Finish(a, o)) \/ FinishAgain(a)
    BY <2>3, FinishStep
  <2>4. CASE Die(a)
    BY <2>4, DieStep
  <2> QED BY <1>3, <2>1, <2>2, <2>3, <2>4 DEF HookStep
<1>4. CASE ReadMembers \/ ReadFeed \/ ReadJournal
  BY <1>4, ReadStep
<1>5. CASE UNCHANGED vars
  BY <1>5, StutterStep
<1> QED BY <1>1, <1>2, <1>3, <1>4, <1>5 DEF Next

-----------------------------------------------------------------------------
(* What a reader concludes *)

(* Of a whole journal, the attempt that counts for a workstream is the one of
   its attempts that was triggered last. *)
LEMMA RelevantIsNewest ==
  ASSUME NEW j \in JournalType, ~Bounded(j), NEW ms, NEW w, NEW n \in Nat,
         \A e \in Entries(j) : e.at <= n,
         Relevant(j, ms, w) # None
  PROVE  /\ Relevant(j, ms, w) \in Entries(j)
         /\ \A e \in Entries(j) :
              Membership(ms, e.at) = w => e.at <= Relevant(j, ms, w).at
<1> DEFINE s == j.attempts
           own == Candidates(j, ms, w)
           Newest(i) == \A k \in own : s[k].at <= s[i].at
<1>1. s \in Seq(Attempt) /\ Len(s) \in Nat /\ DOMAIN s = 1 .. Len(s)
  BY DEF JournalType
<1>2. \A i \in 1 .. Len(s) : s[i] \in Entries(j) /\ s[i].at \in Nat /\ s[i].at <= n
  BY <1>1, EntriesOf DEF Attempt
<1>3. own = {i \in 1 .. Len(s) : Membership(ms, s[i].at) = w}
  <2>1. Len(s) <= ScanLimit
    BY <1>1, PublishAssumption DEF Bounded, JournalType
  <2>2. RetainedWindow(j) = 1 .. Len(s)
    BY <1>1, <2>1, PublishAssumption DEF RetainedWindow
  <2> QED BY <2>2 DEF Candidates
<1>4. own # {}
  BY DEF Relevant
<1> HIDE DEF own
<1>5. \E i \in own : Newest(i)
  <2> DEFINE T == {n - s[i].at : i \in own}
  <2>1. T \in SUBSET Nat /\ T # {}
    <3>1. \A i \in own : n - s[i].at \in Nat
      BY <1>2, <1>3
    <3> QED BY <1>4, <3>1
  <2>2. Min(T) \in T /\ \A x \in T : Min(T) <= x
    <3>1. \E x \in T : \A y \in T : x <= y
      BY <2>1, LeastOfNats
    <3> HIDE DEF T
    <3> QED BY <3>1 DEF Min
  <2>3. PICK i \in own : Min(T) = n - s[i].at
    BY <2>2
  <2>4. ASSUME NEW k \in own PROVE s[k].at <= s[i].at
    <3>1. n - s[k].at \in T
      OBVIOUS
    <3>2. n - s[i].at <= n - s[k].at
      BY <2>2, <2>3, <3>1
    <3> QED BY <1>2, <1>3, <3>2
  <2> QED BY <2>4
<1>6. PICK i : i = (CHOOSE k \in own : Newest(k))
  OBVIOUS
<1>7. i \in own /\ Newest(i)
  BY <1>5, <1>6
<1>8. Relevant(j, ms, w) = s[i]
  BY <1>4, <1>6 DEF Relevant, own
<1>9. ASSUME NEW e \in Entries(j), Membership(ms, e.at) = w PROVE e.at <= s[i].at
  <2>1. PICK k \in 1 .. Len(s) : e = s[k]
    BY EntriesOf
  <2>2. k \in own
    BY <1>3, <1>9, <2>1
  <2> QED BY <1>7, <2>1, <2>2
<1> QED BY <1>2, <1>3, <1>7, <1>8, <1>9

(* What a reader calls clear has an attempt without a blocker that succeeded. *)
LEMMA ClearMeansOk ==
  ASSUME NEW j, NEW ms, NEW seen, NEW w, Verdict(j, ms, seen, w) = "clear"
  PROVE  /\ Relevant(j, ms, w) # None
         /\ Relevant(j, ms, w).outcome = "ok"
         /\ ~Relevant(j, ms, w).blocker
<1>1. Relevant(j, ms, w) # None
  BY DEF Verdict
<1>2. NormalizeAttempt(Relevant(j, ms, w)) = "clear"
  BY DEF Verdict
<1> QED BY <1>1, <1>2 DEF NormalizeAttempt

Started(a) == hook[a].pc # "new"

(* The turns ended in the order in which their hooks were triggered. *)
InOrder ==
    \A a, b \in Attempts :
        Started(a) /\ Started(b) /\ hook[a].mem.at <= hook[b].mem.at =>
            hook[a].turn <= hook[b].turn

(* A hook knows its turn and when it was triggered; it saw no blocker only when
   the feed held its turn, and succeeded only after it had looked. *)
Informed ==
    \A a \in Attempts : Started(a) =>
        /\ hook[a].mem.at <= now /\ hook[a].turn <= Len(turns)
        /\ hook[a].polled /\ ~hook[a].mem.blocker => hook[a].turn <= feed
        /\ hook[a].mem.outcome = "ok" => hook[a].polled

(* An entry says when its hook was triggered. *)
Dated == \A e \in Entries(journal) : e.at = hook[e.id].mem.at

(* An answer is about the journal as it still is. *)
Answered ==
    reader.pc = "answered" =>
        /\ reader.journal = journal
        /\ \A w \in Workstreams :
             reader.verdict[w] = Verdict(journal, reader.moves, reader.seen, w)

ClearInv == InOrder /\ Informed /\ Dated /\ Answered

LEMMA ClearInvPublished == JournalInv /\ ClearInv => ClearPublished
<1> SUFFICES ASSUME JournalInv, ClearInv, reader.pc = "answered", ~Bounded(reader.journal),
                    NEW w \in Workstreams, reader.verdict[w] = "clear",
                    NEW e \in Entries(reader.journal), Membership(reader.moves, e.at) = w
             PROVE  hook[e.id].turn <= feed
  BY DEF ClearPublished
<1> DEFINE r == Relevant(journal, reader.moves, w)
<1>1. /\ reader.journal = journal /\ journal \in JournalType
      /\ Verdict(journal, reader.moves, reader.seen, w) = "clear"
  BY DEF ClearInv, Answered, JournalInv
<1>2. r # None /\ r.outcome = "ok" /\ ~r.blocker
  BY <1>1, ClearMeansOk
<1>3. ASSUME NEW x \in Entries(journal)
      PROVE  x \in Attempt /\ x.id \in Attempts /\ Started(x.id) /\ x.at = hook[x.id].mem.at
             /\ x.at <= now
  <2>1. x \in Attempt /\ x.id \in Attempts
    BY <1>1, EntriesOf DEF Attempt
  <2>2. Started(x.id)
    BY DEF JournalInv, Written, Started
  <2> QED BY <2>1, <2>2 DEF ClearInv, Dated, Informed
<1>4. now \in Nat
  BY DEF JournalInv, Shapes
<1>5. r \in Entries(journal) /\ e.at <= r.at
  BY <1>1, <1>2, <1>3, <1>4, RelevantIsNewest
<1> HIDE DEF r
<1>6. r = hook[r.id].mem
  <2>1. r.outcome # "not_recorded" /\ Finished(r)
    BY <1>2, PublishAssumption DEF Finished, Outcomes
  <2> QED BY <1>5, <2>1 DEF JournalInv, Written
<1>7. hook[r.id].turn <= feed
  <2>1. hook[r.id].mem.outcome = "ok" /\ ~hook[r.id].mem.blocker
    BY <1>2, <1>6
  <2> QED BY <1>3, <1>5, <2>1 DEF ClearInv, Informed
<1>8. hook[e.id].turn <= hook[r.id].turn
  BY <1>1, <1>3, <1>5 DEF ClearInv, InOrder
<1>9. /\ hook[e.id].turn \in Nat /\ hook[r.id].turn \in Nat /\ feed \in Nat
  <2>1. hook[e.id] \in Process /\ hook[r.id] \in Process /\ scene.turns \in Nat
    BY <1>1, <1>3, <1>5 DEF JournalInv, Shapes, Scene
  <2> QED BY <2>1 DEF Process, JournalInv, Shapes
<1> QED BY <1>7, <1>8, <1>9

LEMMA InitClearInv == Init => ClearInv
<1> SUFFICES ASSUME Init PROVE ClearInv
  OBVIOUS
<1>1. \A a \in Attempts : ~Started(a)
  BY DEF Init, Started
<1>2. Entries(journal) = {}
  <2>1. journal \in JournalType /\ journal.attempts = <<>>
    BY DEF Init, JournalType
  <2> QED BY <2>1, EntriesOf
<1>3. reader.pc # "answered"
  BY DEF Init
<1> QED BY <1>1, <1>2, <1>3 DEF ClearInv, InOrder, Informed, Dated, Answered

(* A hook starts with the newest turn and the latest trigger. *)
LEMMA StartClear ==
  ASSUME JournalInv, JournalInv', ClearInv, reader.pc # "answered", NEW a \in Attempts,
         \/ \E text \in Texts : EndTurn(a, text)
         \/ Prompt(a)
  PROVE  ClearInv'
<1>1. PICK says \in Texts \union {None} : Start(a, says)
  BY DEF EndTurn, Prompt
<1>2. /\ UNCHANGED <<scene, feed, journal, reader>> /\ now' = now + 1
      /\ hook[a].pc = "new" /\ now \in Nat
  BY <1>1 DEF Start, JournalInv, Shapes
<1>3. Len(turns) \in Nat /\ Len(turns') \in Nat /\ Len(turns) <= Len(turns')
  <2>1. turns \in Seq(Turn) /\ turns' \in Seq(Turn)
    BY DEF JournalInv, Shapes, Turn
  <2>2. turns' = turns \/ \E t : turns' = Append(turns, t)
    BY DEF EndTurn, Prompt
  <2> QED BY <2>1, <2>2
<1> DEFINE h == [pc |-> "triggered", polled |-> FALSE, saved |-> FALSE,
                 turn |-> Len(turns'),
                 mem |-> [id |-> a, at |-> now', says |-> says,
                          blocker |-> FALSE, outcome |-> None]]
<1>4. hook' = [hook EXCEPT ![a] = h] /\ hook \in [Attempts -> Process]
  BY <1>1 DEF Start, JournalInv, Shapes
<1>5. /\ h.pc = "triggered" /\ ~h.polled /\ h.turn = Len(turns')
      /\ h.mem.at = now' /\ h.mem.outcome = None
  OBVIOUS
<1> HIDE DEF h
<1>6. \A b \in Attempts : hook'[b] = IF b = a THEN h ELSE hook[b]
  BY <1>4
<1>7. \A b \in Attempts : b # a /\ Started(b)' =>
        /\ Started(b)
        /\ hook[b].mem.at \in Nat /\ hook[b].mem.at <= now
        /\ hook[b].turn \in Nat /\ hook[b].turn <= Len(turns)
  <2> SUFFICES ASSUME NEW b \in Attempts, b # a, Started(b)'
               PROVE  /\ Started(b)
                      /\ hook[b].mem.at \in Nat /\ hook[b].mem.at <= now
                      /\ hook[b].turn \in Nat /\ hook[b].turn <= Len(turns)
    OBVIOUS
  <2>1. Started(b)
    BY <1>6 DEF Started
  <2>2. hook[b] \in Process /\ scene.turns \in Nat
    BY <1>4 DEF JournalInv, Shapes, Scene
  <2>3. hook[b].mem.at \in Nat /\ hook[b].turn \in Nat
    BY <2>2 DEF Process, Attempt
  <2> QED BY <2>1, <2>3 DEF ClearInv, Informed
<1>8. InOrder'
  <2> SUFFICES ASSUME NEW b \in Attempts, NEW c \in Attempts, Started(b)', Started(c)',
                      hook'[b].mem.at <= hook'[c].mem.at
               PROVE  hook'[b].turn <= hook'[c].turn
    BY DEF InOrder, Started
  <2>1. CASE c = a
    BY <1>3, <1>5, <1>6, <1>7, <2>1
  <2>2. CASE c # a /\ b = a
    BY <1>2, <1>5, <1>6, <1>7, <2>2
  <2>3. CASE c # a /\ b # a
    BY <1>6, <1>7, <2>3 DEF ClearInv, InOrder
  <2> QED BY <2>1, <2>2, <2>3
<1>9. Informed'
  <2> SUFFICES ASSUME NEW b \in Attempts, Started(b)'
               PROVE  /\ hook'[b].mem.at <= now' /\ hook'[b].turn <= Len(turns')
                      /\ hook'[b].polled /\ ~hook'[b].mem.blocker => hook'[b].turn <= feed'
                      /\ hook'[b].mem.outcome = "ok" => hook'[b].polled
    BY DEF Informed, Started
  <2>1. CASE b = a
    <3>1. None # "ok"
      BY PublishAssumption DEF Outcomes
    <3> QED BY <1>2, <1>3, <1>5, <1>6, <2>1, <3>1
  <2>2. CASE b # a
    BY <1>2, <1>3, <1>6, <1>7, <2>2 DEF ClearInv, Informed
  <2> QED BY <2>1, <2>2
<1>10. Dated'
  <2> SUFFICES ASSUME NEW e \in Entries(journal) PROVE e.at = hook'[e.id].mem.at
    BY <1>2 DEF Dated
  <2>1. e.id \in Attempts /\ e.id # a
    BY <1>2 DEF JournalInv, Written, Shapes
  <2> QED BY <1>6, <2>1 DEF ClearInv, Dated
<1>11. Answered'
  BY <1>2 DEF Answered
<1> QED BY <1>8, <1>9, <1>10, <1>11 DEF ClearInv

(* The steps of a hook that is alive: what it is told of does not change, and
   the feed only grows. *)
LEMMA HookClear ==
  ASSUME JournalInv, JournalInv', ClearInv, reader.pc # "answered",
         NEW a \in Attempts, Alive(a),
         UNCHANGED <<scene, now, turns, reader>>,
         feed' \in feed .. Len(turns),
         \E h \in Process :
           /\ hook' = [hook EXCEPT ![a] = h]
           /\ h.mem.at = hook[a].mem.at /\ h.turn = hook[a].turn
           /\ h.polled /\ ~h.mem.blocker => h.turn <= feed'
           /\ h.mem.outcome = "ok" => h.polled
           /\ \/ Updates(journal, journal', h.mem)
              \/ UNCHANGED journal
  PROVE  ClearInv'
<1>1. PICK h \in Process :
        /\ hook' = [hook EXCEPT ![a] = h]
        /\ h.mem.at = hook[a].mem.at /\ h.turn = hook[a].turn
        /\ h.polled /\ ~h.mem.blocker => h.turn <= feed'
        /\ h.mem.outcome = "ok" => h.polled
        /\ \/ Updates(journal, journal', h.mem)
           \/ UNCHANGED journal
  OBVIOUS
<1>2. hook \in [Attempts -> Process]
  BY DEF JournalInv, Shapes
<1>3. /\ \A b \in Attempts : hook'[b] = IF b = a THEN h ELSE hook[b]
      /\ \A b \in Attempts : hook'[b].mem.at = hook[b].mem.at /\ hook'[b].turn = hook[b].turn
  BY <1>1, <1>2
<1>4. \A b \in Attempts : Started(b)' => Started(b)
  BY <1>3 DEF Started, Alive
<1>5. InOrder'
  BY <1>3, <1>4 DEF ClearInv, InOrder
<1>6. Informed'
  <2> SUFFICES ASSUME NEW b \in Attempts, Started(b)'
               PROVE  /\ hook'[b].mem.at <= now' /\ hook'[b].turn <= Len(turns')
                      /\ hook'[b].polled /\ ~hook'[b].mem.blocker => hook'[b].turn <= feed'
                      /\ hook'[b].mem.outcome = "ok" => hook'[b].polled
    BY DEF Informed, Started
  <2>1. /\ hook[b].mem.at <= now /\ hook[b].turn <= Len(turns)
        /\ hook[b].polled /\ ~hook[b].mem.blocker => hook[b].turn <= feed
        /\ hook[b].mem.outcome = "ok" => hook[b].polled
    BY <1>4 DEF ClearInv, Informed
  <2>2. CASE b = a
    BY <1>1, <1>3, <2>1, <2>2
  <2>3. CASE b # a
    <3>1. hook'[b] = hook[b]
      BY <1>3, <2>3
    <3>2. hook[b].turn \in Nat /\ feed \in Nat /\ feed' \in Nat /\ feed <= feed'
      <4>1. hook[b] \in Process /\ scene.turns \in Nat /\ feed \in Nat
        BY <1>2 DEF JournalInv, Shapes, Scene
      <4> QED BY <4>1 DEF Process
    <3>3. hook[b].polled /\ ~hook[b].mem.blocker => hook[b].turn <= feed'
      BY <2>1, <3>2
    <3> QED BY <2>1, <3>1, <3>3
  <2> QED BY <2>2, <2>3
<1>7. Dated'
  <2> SUFFICES ASSUME NEW x \in Entries(journal') PROVE x.at = hook'[x.id].mem.at
    BY DEF Dated, Entries
  <2>1. x.id \in Attempts
    BY DEF JournalInv, Shapes, Written, Entries
  <2>2. CASE UNCHANGED journal
    BY <1>3, <2>1, <2>2 DEF ClearInv, Dated
  <2>3. CASE Updates(journal, journal', h.mem)
    <3>1. CASE x = h.mem
      <4>1. h.mem.id = a
        BY <1>3 DEF JournalInv, Minds
      <4> QED BY <1>3, <3>1, <4>1
    <3>2. CASE \E y \in Entries(journal) : y.id = x.id /\ y.at = x.at
      BY <1>3, <2>1, <3>2 DEF ClearInv, Dated
    <3> QED BY <2>3, <3>1, <3>2 DEF Updates
  <2> QED BY <1>1, <2>2, <2>3
<1>8. Answered'
  BY DEF Answered
<1> QED BY <1>5, <1>6, <1>7, <1>8 DEF ClearInv

LEMMA BirthClear ==
  ASSUME JournalInv, JournalInv', ClearInv, reader.pc # "answered",
         NEW a \in Attempts, Birth(a)
  PROVE  ClearInv'
<1> DEFINE h == [hook[a] EXCEPT !.pc = "open"]
<1>1. /\ hook[a] \in Process /\ hook[a].mem \in Attempt /\ hook[a].mem.id = a
      /\ hook[a].pc = "triggered" /\ Alive(a) /\ Started(a)
  BY DEF Birth, JournalInv, Shapes, Minds, Process, Alive, Started
<1>2. h \in Process /\ h.mem = hook[a].mem /\ h.turn = hook[a].turn
      /\ h.polled = hook[a].polled
  BY <1>1 DEF Process
<1>3. hook' = [hook EXCEPT ![a] = h]
  BY DEF Birth
<1> HIDE DEF h
<1>4. UNCHANGED <<scene, now, turns, reader>> /\ UNCHANGED feed
  BY DEF Birth, Unread
<1>5. feed' \in feed .. Len(turns)
  BY <1>4 DEF JournalInv, Shapes
<1>6. /\ h.polled /\ ~h.mem.blocker => h.turn <= feed'
      /\ h.mem.outcome = "ok" => h.polled
  BY <1>1, <1>2, <1>4 DEF ClearInv, Informed
<1>7. Updates(journal, journal', h.mem) \/ UNCHANGED journal
  <2>1. CASE UNCHANGED journal
    BY <2>1
  <2>2. CASE Replace(a, [Autopsied(journal, a) EXCEPT !.attempts = Append(@, hook[a].mem)])
    <3>1. \A y \in Entries(journal) : y.id # a
      BY <1>1 DEF JournalInv, Written
    <3> QED BY <1>1, <1>2, <2>2, <3>1, BirthUpdates DEF Replace, JournalInv
  <2> QED BY <2>1, <2>2 DEF Birth, Miss
<1> QED BY <1>1, <1>2, <1>3, <1>4, <1>5, <1>6, <1>7, HookClear

(* A look without a blocker follows the publication of the turn. *)
LEMMA PollClear ==
  ASSUME JournalInv, JournalInv', ClearInv, reader.pc # "answered",
         NEW a \in Attempts, NEW k \in Nat, NEW blocker \in BOOLEAN, Poll(a, k, blocker)
  PROVE  ClearInv'
<1> DEFINE e == [hook[a].mem EXCEPT !.blocker = blocker]
           g(saved) == [hook[a] EXCEPT !.mem = e, !.polled = TRUE, !.saved = saved]
<1>1. /\ hook[a] \in Process /\ hook[a].mem \in Attempt /\ hook[a].pc = "open" /\ Alive(a)
      /\ hook[a].turn \in Nat
  <2>1. hook[a] \in Process /\ scene.turns \in Nat
    BY DEF JournalInv, Shapes, Scene
  <2> QED BY <2>1 DEF Poll, Process, Alive
<1>2. e \in Attempt /\ e.at = hook[a].mem.at /\ e.blocker = blocker
      /\ e.outcome = hook[a].mem.outcome /\ e.id = hook[a].mem.id
  BY <1>1 DEF Attempt
<1>3. Persist(a, e) \/ UNCHANGED journal
  BY DEF Poll, Miss
<1>4. \E saved \in BOOLEAN : hook' = [hook EXCEPT ![a] = g(saved)]
  <2>1. hook \in [Attempts -> Process] /\ hook[a].saved \in BOOLEAN
    BY <1>1 DEF JournalInv, Shapes, Process
  <2>2. \E saved \in BOOLEAN :
          hook' = [hook EXCEPT ![a].mem = e, ![a].polled = TRUE, ![a].saved = saved]
    BY <2>1 DEF Poll
  <2> HIDE DEF e
  <2> QED BY <2>1, <2>2
<1> HIDE DEF e
<1>5. PICK h \in Process :
        /\ hook' = [hook EXCEPT ![a] = h] /\ h.mem = e /\ h.turn = hook[a].turn
        /\ h.polled
  <2>1. PICK saved \in BOOLEAN : hook' = [hook EXCEPT ![a] = g(saved)]
    BY <1>4
  <2>2. g(saved) \in Process /\ g(saved).mem = e /\ g(saved).turn = hook[a].turn
        /\ g(saved).polled
    BY <1>1, <1>2 DEF Process
  <2> HIDE DEF g
  <2> QED BY <2>1, <2>2
<1>6. UNCHANGED <<scene, now, turns, reader>> /\ feed' = k /\ feed' \in feed .. Len(turns)
  BY DEF Poll, Unread
<1>7. ~blocker => hook[a].turn <= feed'
  BY <1>1, <1>6 DEF Poll
<1>8. Persist(a, e) => Updates(journal, journal', e)
  BY <1>2, PutUpdates DEF Persist, Replace, JournalInv
<1> QED BY <1>1, <1>2, <1>3, <1>5, <1>6, <1>7, <1>8, HookClear

(* An outcome is decided, and "ok" only after a look. *)
LEMMA FinishClear ==
  ASSUME JournalInv, JournalInv', ClearInv, reader.pc # "answered", NEW a \in Attempts,
         (\E o \in Outcomes : Finish(a, o)) \/ FinishAgain(a)
  PROVE  ClearInv'
<1>1. /\ hook[a] \in Process /\ hook[a].mem \in Attempt /\ hook[a].mem.id = a
      /\ hook \in [Attempts -> Process]
  BY DEF JournalInv, Shapes, Process, Minds
<1>2. PICK e \in Attempt, again \in BOOLEAN :
        /\ WriteOutcome(a, e, again) /\ Alive(a)
        /\ e.at = hook[a].mem.at /\ e.blocker = hook[a].mem.blocker
        /\ e.outcome = "ok" => hook[a].polled
  <2>1. CASE FinishAgain(a)
    <3>1. hook[a].mem.outcome = "ok" => hook[a].polled
      BY <2>1 DEF ClearInv, Informed, Started, FinishAgain
    <3> QED BY <1>1, <2>1, <3>1 DEF FinishAgain, Alive
  <2>2. ASSUME NEW o \in Outcomes, Finish(a, o)
        PROVE  \E e \in Attempt, again \in BOOLEAN :
                 /\ WriteOutcome(a, e, again) /\ Alive(a)
                 /\ e.at = hook[a].mem.at /\ e.blocker = hook[a].mem.blocker
                 /\ e.outcome = "ok" => hook[a].polled
    <3> DEFINE e == [hook[a].mem EXCEPT !.outcome = o]
    <3>1. /\ e \in Attempt /\ e.at = hook[a].mem.at /\ e.blocker = hook[a].mem.blocker
          /\ e.outcome = o
      BY <1>1 DEF Attempt
    <3>2. WriteOutcome(a, e, TRUE) /\ Alive(a) /\ (o = "ok" => hook[a].polled)
      BY <2>2 DEF Finish, Outcome, Alive
    <3> HIDE DEF e
    <3> QED BY <3>1, <3>2
  <2> QED BY <2>1, <2>2
<1> DEFINE g(pc) == [hook[a] EXCEPT !.pc = pc, !.mem = e]
<1>3. \E pc \in {"ending", "gone"} : hook' = [hook EXCEPT ![a].pc = pc, ![a].mem = e]
  BY <1>2 DEF WriteOutcome
<1>4. PICK pc \in {"ending", "gone"} : hook' = [hook EXCEPT ![a] = g(pc)]
  BY <1>1, <1>3
<1>5. g(pc) \in Process /\ g(pc).mem = e /\ g(pc).turn = hook[a].turn
      /\ g(pc).polled = hook[a].polled
  BY <1>1 DEF Process
<1>6. PICK h \in Process :
        /\ hook' = [hook EXCEPT ![a] = h] /\ h.mem = e /\ h.turn = hook[a].turn
        /\ h.polled = hook[a].polled
  <2> HIDE DEF g
  <2> QED BY <1>4, <1>5
<1>7. UNCHANGED <<scene, now, turns, reader>> /\ UNCHANGED feed
  BY <1>2 DEF WriteOutcome, Unread
<1>8. feed' \in feed .. Len(turns)
  BY <1>7 DEF JournalInv, Shapes
<1>9. h.polled /\ ~h.mem.blocker => h.turn <= feed'
  <2>1. Started(a)
    BY <1>2 DEF Alive, Started
  <2> QED BY <1>2, <1>6, <1>7, <2>1 DEF ClearInv, Informed
<1>10. Updates(journal, journal', h.mem) \/ UNCHANGED journal
  BY <1>2, <1>6, PutUpdates DEF WriteOutcome, Persist, Replace, JournalInv, Miss
<1> QED BY <1>2, <1>6, <1>7, <1>8, <1>9, <1>10, HookClear

LEMMA DieClear ==
  ASSUME JournalInv, JournalInv', ClearInv, reader.pc # "answered",
         NEW a \in Attempts, Die(a)
  PROVE  ClearInv'
<1> DEFINE h == [hook[a] EXCEPT !.pc = "gone"]
<1>1. hook[a] \in Process /\ Alive(a) /\ Started(a)
  BY DEF Die, JournalInv, Shapes, Alive, Started
<1>2. h \in Process /\ h.mem = hook[a].mem /\ h.turn = hook[a].turn
      /\ h.polled = hook[a].polled
  BY <1>1 DEF Process
<1>3. hook' = [hook EXCEPT ![a] = h]
  BY DEF Die
<1> HIDE DEF h
<1>4. UNCHANGED <<scene, now, turns, reader>> /\ UNCHANGED <<feed, journal>>
  BY DEF Die, Unread
<1>5. feed' \in feed .. Len(turns)
  BY <1>4 DEF JournalInv, Shapes
<1>6. /\ h.polled /\ ~h.mem.blocker => h.turn <= feed'
      /\ h.mem.outcome = "ok" => h.polled
  BY <1>1, <1>2, <1>4 DEF ClearInv, Informed
<1> QED BY <1>1, <1>2, <1>3, <1>4, <1>5, <1>6, HookClear

(* What leaves the hooks, the feed and the journal alone: a move, and a reader,
   which answers from the journal that it has just read. *)
LEMMA OtherClear ==
  ASSUME JournalInv, ClearInv,
         (reader.pc # "answered" /\ \E w \in Workstreams : Move(w))
           \/ ReadMembers \/ ReadFeed \/ ReadJournal \/ UNCHANGED vars
  PROVE  ClearInv'
<1>1. UNCHANGED <<turns, feed, hook, journal>> /\ now \in Nat /\ now' \in {now, now + 1}
  BY DEF Move, ReadMembers, ReadFeed, ReadJournal, vars, JournalInv, Shapes
<1>2. InOrder' /\ Dated'
  BY <1>1 DEF ClearInv, InOrder, Dated, Started
<1>3. Informed'
  <2> SUFFICES ASSUME NEW a \in Attempts, Started(a) PROVE hook[a].mem.at <= now'
    BY <1>1 DEF ClearInv, Informed, Started
  <2>1. hook[a].mem.at \in Nat
    <3>1. hook[a] \in Process
      BY DEF JournalInv, Shapes
    <3> QED BY <3>1 DEF Process, Attempt
  <2> QED BY <1>1, <2>1 DEF ClearInv, Informed
<1>4. Answered'
  <2>1. CASE ReadJournal
    <3> DEFINE v == [w \in Workstreams |->
                       Verdict(journal, reader.moves, reader.seen, w)]
    <3>1. reader' = [reader EXCEPT !.pc = "answered", !.journal = journal, !.verdict = v]
      BY <2>1 DEF ReadJournal
    <3>2. \A w \in Workstreams : v[w] = Verdict(journal, reader.moves, reader.seen, w)
      OBVIOUS
    <3> HIDE DEF v
    <3>3. reader \in Reader
      BY DEF JournalInv, Shapes
    <3>4. /\ reader'.journal = journal /\ reader'.verdict = v
          /\ reader'.moves = reader.moves /\ reader'.seen = reader.seen
      BY <3>1, <3>3 DEF Reader
    <3> QED BY <1>1, <3>2, <3>4 DEF Answered
  <2>2. CASE (ReadMembers \/ ReadFeed)
    <3>1. reader \in Reader
      BY DEF JournalInv, Shapes
    <3>2. reader'.pc # "answered"
      BY <2>2, <3>1 DEF ReadMembers, ReadFeed, Reader
    <3> QED BY <3>2 DEF Answered
  <2>3. CASE UNCHANGED reader
    BY <1>1, <2>3 DEF ClearInv, Answered
  <2> QED BY <2>1, <2>2, <2>3 DEF Move, vars
<1> QED BY <1>2, <1>3, <1>4 DEF ClearInv

LEMMA StepClearInv ==
  ASSUME JournalInv, JournalInv', ClearInv, [Next]_vars
  PROVE  ClearInv'
<1>1. CASE \/ reader.pc # "answered" /\ \E w \in Workstreams : Move(w)
           \/ ReadMembers \/ ReadFeed \/ ReadJournal \/ UNCHANGED vars
  BY <1>1, OtherClear
<1>2. ASSUME reader.pc # "answered", NEW a \in Attempts,
             (\E text \in Texts : EndTurn(a, text)) \/ Prompt(a)
      PROVE  ClearInv'
  BY <1>2, StartClear
<1>3. ASSUME reader.pc # "answered", NEW a \in Attempts, HookStep(a)
      PROVE  ClearInv'
  <2>1. CASE Birth(a)
    BY <1>3, <2>1, BirthClear
  <2>2. ASSUME NEW k \in 0 .. scene.turns, NEW blocker \in BOOLEAN, Poll(a, k, blocker)
        PROVE  ClearInv'
    BY <1>3, <2>2, PollClear
  <2>3. CASE (\E o \in Outcomes : Finish(a, o)) \/ FinishAgain(a)
    BY <1>3, <2>3, FinishClear
  <2>4. CASE Die(a)
    BY <1>3, <2>4, DieClear
  <2> QED BY <1>3, <2>1, <2>2, <2>3, <2>4 DEF HookStep
<1> QED BY <1>1, <1>2, <1>3 DEF Next

-----------------------------------------------------------------------------
(* The journal stays sound, whatever the hooks of the session do. *)
THEOREM Sound == Spec => []JournalSound
<1>1. JournalInv /\ [Next]_vars => JournalInv'
  BY StepJournalInv DEF Preserved
<1> QED BY <1>1, InitJournalInv, JournalInvSound, PTL DEF Spec

(* A written outcome stays. *)
THEOREM Final == Spec => OutcomeFinal
<1>1. JournalInv /\ [Next]_vars => JournalInv'
  BY StepJournalInv DEF Preserved
<1>2. JournalInv /\ [Next]_vars
        => [\A e \in Entries(journal) : Finished(e) =>
              \A x \in Entries(journal') : x.id = e.id => x = e]_vars
  BY StepJournalInv DEF Preserved, Kept
<1> QED BY <1>1, <1>2, InitJournalInv, PTL DEF Spec, OutcomeFinal

(* A reader of a whole journal calls a workstream clear only when all the turns
   that its attempts stand for are published. *)
THEOREM ClearIsPublished == Spec => []ClearPublished
<1>1. JournalInv /\ [Next]_vars => JournalInv'
  BY StepJournalInv DEF Preserved
<1>2. JournalInv /\ JournalInv' /\ ClearInv /\ [Next]_vars => ClearInv'
  BY StepClearInv
<1> QED BY <1>1, <1>2, InitJournalInv, InitClearInv, ClearInvPublished, PTL DEF Spec

=============================================================================
