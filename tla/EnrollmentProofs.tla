-------------------------- MODULE EnrollmentProofs --------------------------
(***************************************************************************)
(* Theorems of Enrollment for any number of sessions, names, workstreams,  *)
(* commands, prompts and deaths.                                           *)
(***************************************************************************)
EXTENDS Enrollment, TLAPS

(* A name resolves to a workstream on record that has it. *)
LEMMA ResolveType ==
  ASSUME TypeOK, NEW n \in Names
  PROVE  /\ Resolve(n) \in Ids \union {None}
         /\ Resolve(n) # None => /\ claim[n] = Resolve(n)
                                 /\ record[Resolve(n)] # None
                                 /\ record[Resolve(n)].name = n
         /\ Resolve(n) = None /\ claim[n] # None /\ record[claim[n]] # None
              => record[claim[n]].name # n
  BY DEF TypeOK, Resolve

(* The current membership is a workstream, the unscoped one or none. *)
LEMMA StandingType ==
  ASSUME TypeOK, NEW s \in Sessions
  PROVE  /\ Standing(s) \in Ids \union {Unscoped, None}
         /\ log[s] # <<>> => Len(log[s]) \in DOMAIN log[s]
                             /\ Standing(s) = log[s][Len(log[s])]
<1>1. log[s] \in Seq(Ids \union {Unscoped})
  BY DEF TypeOK
<1> QED BY <1>1 DEF Standing, Last

-----------------------------------------------------------------------------
(* The inductive invariant.  An invocation is there as long as it is handled,
   and a hook that was not started is idle ... *)
Started ==
    /\ \A p \in Processes : pc[p] # "idle" => asked[p] \in Invocations
    /\ \A d \in Deliveries : d[2] > prompts[Session(d)] => pc[d] = "idle"
    /\ \A p \in Processes : pc[p] \in {"look", "resolve", "enter", "append"}
                            => p \in Deliveries

(* ... a lock is held exactly from where it is taken to where it is given
   back ... *)
LocksHeld ==
    /\ \A p \in Processes : storeLock = p <=> pc[p] = "record"
    /\ \A s \in Sessions, d \in Deliveries :
         sessionLock[s] = d <=> Session(d) = s /\ pc[d] \in {"create", "record", "append"}

(* ... the claim of a workstream in creation stands, and its record is not
   there yet ... *)
ClaimStands ==
    \A p \in Processes : pc[p] = "record" =>
        /\ target[p] \in Ids
        /\ record[target[p]] = None
        /\ claim[asked[p].name] = target[p]

(* ... a membership is of a registered workstream ... *)
LogRegistered ==
    \A s \in Sessions : \A i \in DOMAIN log[s] :
        log[s][i] \in Ids => record[log[s][i]] # None

(* ... a hook that creates does not stand in a workstream of the name it was
   asked for, one that appends does not stand in the one it appends ... *)
Leaves ==
    \A d \in Deliveries :
        /\ pc[d] = "create" /\ Standing(Session(d)) \in Ids
              => record[Standing(Session(d))].name # asked[d].name
        /\ pc[d] = "append" =>
              /\ target[d] \in Ids /\ record[target[d]] # None
              /\ Standing(Session(d)) # target[d]

(* ... and a hook that created a workstream is about to join it, has joined
   it, or died. *)
Authored ==
    \A id \in Ids :
        record[id] # None /\ record[id].by \in Deliveries =>
            LET d == record[id].by
            IN  \/ pc[d] = "append" /\ target[d] = id
                \/ pc[d] = "moved" /\ id \in Range(log[Session(d)])
                \/ pc[d] = "dead"

EnrollInv == /\ TypeOK /\ Started /\ LocksHeld /\ ClaimStands /\ NamesResolve
             /\ LogRegistered /\ Leaves /\ Authored

(* Who stands in a workstream stands in a registered one. *)
LEMMA StandingRegistered ==
  ASSUME TypeOK, LogRegistered, NEW s \in Sessions, Standing(s) \in Ids
  PROVE  record[Standing(s)] # None
<1>1. log[s] # <<>>
  BY EnrollmentAssumption DEF Standing
<1> QED BY <1>1, StandingType DEF LogRegistered

LEMMA InitEnrollInv == Init => EnrollInv
<1> SUFFICES ASSUME Init PROVE EnrollInv
  OBVIOUS
<1> USE EnrollmentAssumption DEF Init
<1>1. TypeOK
  <2>1. <<>> \in Seq(Ids \union {Unscoped}) /\ <<Unscoped>> \in Seq(Ids \union {Unscoped})
    OBVIOUS
  <2>2. log \in [Sessions -> Seq(Ids \union {Unscoped})]
    BY <2>1
  <2> QED BY <2>2 DEF TypeOK
<1>2. Started /\ LocksHeld /\ ClaimStands /\ NamesResolve /\ Leaves /\ Authored
  BY DEF Started, LocksHeld, ClaimStands, NamesResolve, Leaves, Authored, Processes
<1>3. LogRegistered
  BY DEF LogRegistered
<1> QED BY <1>1, <1>2, <1>3 DEF EnrollInv

-----------------------------------------------------------------------------
(* The steps of Next, one lemma each. *)

LEMMA PromptStep ==
  ASSUME EnrollInv, NEW s \in Sessions, NEW inv \in Invocations, Prompt(s, inv)
  PROVE  EnrollInv'
<1> DEFINE k == prompts[s] + 1
           new == {<<s, k, role>> : role \in Roles}
<1> USE EnrollmentAssumption DEF EnrollInv, TypeOK, Prompt, files, locks
<1>1. k \in 1..MaxPrompts
  OBVIOUS
<1>2. \A p \in new : p \in Deliveries /\ p \in Processes /\ pc[p] = "idle" /\ Session(p) = s
  BY <1>1 DEF Deliveries, Processes, Started, Session
<1>3. \A p \in Processes : p \notin new => pc'[p] = pc[p] /\ asked'[p] = asked[p]
  OBVIOUS
<1>4. \A p \in new : pc'[p] = "look" /\ asked'[p] = inv
  BY <1>2
<1> HIDE DEF k
<1>5. TypeOK'
  BY <1>1 DEF Running
<1>6. Started'
  <2>1. \A p \in Processes : pc'[p] # "idle" => asked'[p] \in Invocations
    BY <1>3, <1>4 DEF Started
  <2>2. \A d \in Deliveries : d[2] > prompts'[Session(d)] => pc'[d] = "idle"
    <3> SUFFICES ASSUME NEW d \in Deliveries, d[2] > prompts'[Session(d)]
                 PROVE  d \notin new /\ d \in Processes /\ pc[d] = "idle"
      BY <1>3
    <3>1. d \in Processes /\ d[1] \in Sessions /\ d[2] \in 1..MaxPrompts
      BY DEF Deliveries, Processes
    <3>2. prompts' = [prompts EXCEPT ![s] = k] /\ k = prompts[s] + 1
      BY DEF k
    <3>3. d \notin new
      <4>1. d \in new => d[1] = s /\ d[2] = k
        OBVIOUS
      <4> QED BY <4>1, <3>1, <3>2, <1>1 DEF Session
    <3>4. d[2] > prompts[Session(d)]
      BY <3>1, <3>2, <1>1 DEF Session
    <3> QED BY <3>1, <3>3, <3>4 DEF Started
  <2>3. \A p \in Processes : pc'[p] \in {"look", "resolve", "enter", "append"}
                              => p \in Deliveries
    BY <1>2, <1>3 DEF Started
  <2> QED BY <2>1, <2>2, <2>3 DEF Started
<1>7. LocksHeld'
  <2>1. \A p \in Processes : pc'[p] # pc[p] => pc[p] = "idle" /\ pc'[p] = "look"
    BY <1>2, <1>3, <1>4
  <2>2. storeLock' = storeLock /\ sessionLock' = sessionLock
    OBVIOUS
  <2> HIDE DEF Prompt, TypeOK, EnrollInv, new
  <2>3. \A p \in Processes : pc'[p] = "record" <=> pc[p] = "record"
    BY <2>1
  <2>4. \A d \in Deliveries : pc'[d] \in {"create", "record", "append"}
                              <=> pc[d] \in {"create", "record", "append"}
    BY <2>1 DEF Processes
  <2>5. LocksHeld
    BY DEF EnrollInv
  <2> QED BY <2>2, <2>3, <2>4, <2>5 DEF LocksHeld
<1>8. ClaimStands' /\ NamesResolve'
  BY <1>2, <1>3, <1>4 DEF ClaimStands, NamesResolve
<1>9. LogRegistered'
  BY DEF LogRegistered
<1>10. Leaves' /\ Authored'
  BY <1>2, <1>3, <1>4 DEF Leaves, Authored, Processes, Standing
<1> QED BY <1>5, <1>6, <1>7, <1>8, <1>9, <1>10

(* A process that holds no lock goes on or ends. *)
LEMMA UnlockedStep ==
  ASSUME EnrollInv, TypeOK', NEW p \in Processes,
         pc[p] \in {"look", "resolve", "enter"},
         \E x \in {"resolve", "enter", "member", "refused", "failed", "dead"} :
             pc' = [pc EXCEPT ![p] = x],
         UNCHANGED <<files, locks, prompts, asked, target>>
  PROVE  EnrollInv'
<1> PICK x \in {"resolve", "enter", "member", "refused", "failed", "dead"} :
            pc' = [pc EXCEPT ![p] = x]
  OBVIOUS
<1>1. \A q \in Processes : pc'[q] = IF q = p THEN x ELSE pc[q]
  BY DEF EnrollInv, TypeOK
<1>2. UNCHANGED <<claim, record, log, storeLock, sessionLock, prompts, asked, target>>
  BY DEF files, locks
<1>3. Deliveries \subseteq Processes /\ p \in Deliveries
  BY DEF EnrollInv, Started, Processes
<1>4. Started'
  BY <1>1, <1>2, <1>3 DEF EnrollInv, Started, Ended, Session
<1>5. LocksHeld'
  BY <1>1, <1>2, <1>3 DEF EnrollInv, LocksHeld, Ended
<1>6. ClaimStands' /\ NamesResolve' /\ LogRegistered'
  BY <1>1, <1>2 DEF EnrollInv, ClaimStands, NamesResolve, LogRegistered, Ended
<1>7. Leaves'
  BY <1>1, <1>2, <1>3 DEF EnrollInv, Leaves, Standing, Ended
<1>8. Authored'
  BY <1>1, <1>2, <1>3 DEF EnrollInv, Authored, Ended
<1> QED BY <1>4, <1>5, <1>6, <1>7, <1>8 DEF EnrollInv

LEMMA CommandStep ==
  ASSUME EnrollInv, NEW c \in Commands, NEW n \in Names, Command(c, n)
  PROVE  EnrollInv'
<1>1. c \in Processes /\ c \notin Deliveries /\ Deliveries \subseteq Processes
  BY EnrollmentAssumption DEF Processes
<1>2. [kind |-> "new", name |-> n] \in Invocations
  BY DEF Invocations
<1>3. TypeOK'
  BY <1>1, <1>2 DEF EnrollInv, TypeOK, Command, files, locks, Running
<1>4. \A q \in Processes : pc'[q] = IF q = c THEN "create" ELSE pc[q]
  BY DEF EnrollInv, TypeOK, Command
<1>5. \A q \in Processes : asked'[q] = IF q = c THEN [kind |-> "new", name |-> n] ELSE asked[q]
  BY DEF EnrollInv, TypeOK, Command
<1>6. pc[c] = "idle" /\ UNCHANGED <<claim, record, log, storeLock, sessionLock, prompts, target>>
  BY DEF Command, files, locks
<1>7. Started'
  BY <1>1, <1>2, <1>4, <1>5, <1>6 DEF EnrollInv, Started, Session
<1>8. LocksHeld'
  BY <1>1, <1>4, <1>6 DEF EnrollInv, LocksHeld
<1>9. ClaimStands' /\ NamesResolve' /\ LogRegistered'
  BY <1>1, <1>4, <1>5, <1>6 DEF EnrollInv, ClaimStands, NamesResolve, LogRegistered
<1>10. Leaves'
  BY <1>1, <1>4, <1>5, <1>6 DEF EnrollInv, Leaves, Standing
<1>11. Authored'
  BY <1>1, <1>4, <1>6 DEF EnrollInv, Authored
<1> QED BY <1>3, <1>7, <1>8, <1>9, <1>10, <1>11 DEF EnrollInv

LEMMA SetStatusStep ==
  ASSUME EnrollInv, NEW n \in Names, NEW status \in {"open", "completed"},
         SetStatus(n, status)
  PROVE  EnrollInv'
<1> DEFINE w == Resolve(n)
<1>1. w \in Ids /\ record[w] # None
  BY ResolveType DEF EnrollInv, SetStatus
<1>2. record' = [record EXCEPT ![w].status = status]
  BY DEF SetStatus
<1>3. /\ claim' = claim /\ log' = log /\ storeLock' = storeLock /\ sessionLock' = sessionLock
      /\ prompts' = prompts /\ asked' = asked /\ pc' = pc /\ seen' = seen /\ target' = target
  BY DEF SetStatus, locks
<1> HIDE DEF w
<1>4. /\ record'[w] = [record[w] EXCEPT !.status = status]
      /\ \A id \in Ids : id # w => record'[id] = record[id]
  BY <1>1, <1>2 DEF EnrollInv, TypeOK
<1>5. record[w] \in Records
  BY <1>1 DEF EnrollInv, TypeOK
<1>6. /\ record'[w].name = record[w].name /\ record'[w].by = record[w].by
      /\ record'[w] \in Records
  BY <1>4, <1>5 DEF Records
<1>7. TypeOK'
  <2>1. spent' \in [changes : 0..MaxStatusChanges, deaths : 0..MaxDeaths]
    BY EnrollmentAssumption DEF SetStatus, EnrollInv, TypeOK
  <2>2. record' \in [Ids -> Records \union {None}]
    BY <1>1, <1>2, <1>4, <1>6 DEF EnrollInv, TypeOK
  <2> QED BY <1>3, <2>1, <2>2 DEF EnrollInv, TypeOK
<1>8. \A id \in Ids :
        /\ record'[id] = None <=> record[id] = None
        /\ record[id] # None => /\ record'[id].name = record[id].name
                                /\ record'[id].by = record[id].by
  BY <1>1, <1>4, <1>6, EnrollmentAssumption
<1>9. Started' /\ LocksHeld'
  BY <1>3 DEF EnrollInv, Started, LocksHeld
<1>10. ClaimStands'
  BY <1>3, <1>8 DEF EnrollInv, ClaimStands
<1>11. NamesResolve'
  BY <1>3, <1>8 DEF EnrollInv, NamesResolve
<1>12. LogRegistered'
  BY <1>3, <1>8 DEF EnrollInv, LogRegistered
<1>13. Leaves'
  <2>1. \A d \in Deliveries : Standing(Session(d))' = Standing(Session(d))
    BY <1>3 DEF Standing
  <2>2. \A d \in Deliveries : Session(d) \in Sessions
    BY DEF Deliveries, Session
  <2>3. \A d \in Deliveries : Standing(Session(d)) \in Ids => record[Standing(Session(d))] # None
    BY <2>2, StandingRegistered DEF EnrollInv
  <2> QED BY <1>3, <1>8, <2>1, <2>3 DEF EnrollInv, Leaves
<1>14. Authored'
  BY <1>3, <1>8 DEF EnrollInv, Authored
<1> QED BY <1>7, <1>9, <1>10, <1>11, <1>12, <1>13, <1>14 DEF EnrollInv

LEMMA LookStep ==
  ASSUME EnrollInv, NEW d \in Deliveries, Look(d)
  PROVE  EnrollInv'
<1>1. d \in Processes /\ Session(d) \in Sessions
  BY DEF Processes, Deliveries, Session
<1>2. TypeOK'
  <2>1. Standing(Session(d)) \in Ids \union {Unscoped, None}
    BY <1>1, StandingType DEF EnrollInv
  <2> QED BY <1>1, <2>1 DEF EnrollInv, TypeOK, Look, files, locks, Running
<1>3. pc[d] = "look" /\ pc' = [pc EXCEPT ![d] = "resolve"]
  BY DEF Look
<1>4. UNCHANGED <<files, locks, prompts, asked, target>>
  BY DEF Look
<1> QED BY <1>1, <1>2, <1>3, <1>4, UnlockedStep

LEMMA PrecheckStep ==
  ASSUME EnrollInv, NEW d \in Deliveries, Precheck(d)
  PROVE  EnrollInv'
<1> DEFINE decision == Decision(asked[d], seen[d], Resolve(asked[d].name))
           x == IF decision = "proceed" THEN "enter" ELSE decision
<1>1. d \in Processes
  BY DEF Processes
<1>2. x \in {"enter", "member", "refused"}
  BY DEF Decision
<1>3. pc[d] = "resolve" /\ pc' = [pc EXCEPT ![d] = x]
  BY DEF Precheck
<1>4. UNCHANGED <<files, locks, prompts, asked, target>> /\ UNCHANGED spent
      /\ seen' = [seen EXCEPT ![d] = None]
  BY DEF Precheck
<1> HIDE DEF x
<1>5. TypeOK'
  BY <1>1, <1>2, <1>3, <1>4 DEF EnrollInv, TypeOK, files, locks, Running, Ended
<1> QED BY <1>1, <1>2, <1>3, <1>4, <1>5, UnlockedStep

(* Under the participation lock, a name that resolves is joined; one that
   does not is created, and is not the one of the current workstream. *)
LEMMA EnterStep ==
  ASSUME EnrollInv, NEW d \in Deliveries, Enter(d)
  PROVE  EnrollInv'
<1> DEFINE s == Session(d)
           w == Resolve(asked[d].name)
           decision == Decision(asked[d], Standing(s), w)
<1>1. d \in Processes /\ s \in Sessions /\ Deliveries \subseteq Processes
  BY DEF Processes, Deliveries, Session
<1>2. pc[d] = "enter" /\ sessionLock[s] = None
  BY DEF Enter
<1>3. /\ claim' = claim /\ record' = record /\ log' = log /\ storeLock' = storeLock
      /\ prompts' = prompts /\ asked' = asked /\ seen' = seen /\ spent' = spent
  BY DEF Enter, files
<1>4. asked[d] \in Invocations /\ asked[d].name \in Names
  BY <1>1, <1>2 DEF EnrollInv, Started, Invocations
<1>5. CASE decision # "proceed"
  <2>1. decision \in {"member", "refused"}
    BY <1>5 DEF Decision
  <2>2. pc' = [pc EXCEPT ![d] = decision] /\ target' = target /\ sessionLock' = sessionLock
    BY <1>5 DEF Enter
  <2> HIDE DEF decision
  <2>3. TypeOK'
    BY <1>1, <1>3, <2>1, <2>2 DEF EnrollInv, TypeOK, Running, Ended
  <2>4. UNCHANGED <<files, locks, prompts, asked, target>>
    BY <1>3, <2>2 DEF files, locks
  <2> QED BY <1>1, <1>2, <2>1, <2>2, <2>3, <2>4, UnlockedStep
<1>6. CASE decision = "proceed"
  <2> DEFINE x == IF w = None THEN "create" ELSE "append"
  <2>1. /\ pc' = [pc EXCEPT ![d] = x] /\ target' = [target EXCEPT ![d] = w]
        /\ sessionLock' = [sessionLock EXCEPT ![s] = d]
    BY <1>6 DEF Enter
  <2>2. w # None => w # Standing(s)
    BY <1>4, <1>6, ResolveType DEF EnrollInv, Decision
  <2>3. w \in Ids \union {None} /\ (w # None => record[w] # None)
    BY <1>4, ResolveType DEF EnrollInv
  <2>4. w = None => \A id \in Ids : record[id] # None => record[id].name # asked[d].name
    BY <1>4, ResolveType, EnrollmentAssumption DEF EnrollInv, NamesResolve
  <2> HIDE DEF w, s
  <2>5. \A q \in Processes :
          /\ pc'[q] = IF q = d THEN x ELSE pc[q]
          /\ target'[q] = IF q = d THEN w ELSE target[q]
    BY <2>1 DEF EnrollInv, TypeOK
  <2>6. \A r \in Sessions : sessionLock'[r] = IF r = s THEN d ELSE sessionLock[r]
    BY <2>1 DEF EnrollInv, TypeOK
  <2>7. TypeOK'
    BY <1>1, <1>3, <2>1, <2>3 DEF EnrollInv, TypeOK, Running
  <2>8. Started'
    BY <1>1, <1>2, <1>3, <2>5 DEF EnrollInv, Started
  <2>9. LocksHeld'
    <3>1. \A p \in Processes : storeLock' = p <=> pc'[p] = "record"
      BY <1>2, <1>3, <2>5 DEF EnrollInv, LocksHeld
    <3>2. ASSUME NEW r \in Sessions, NEW q \in Deliveries
          PROVE  sessionLock'[r] = q
                   <=> Session(q) = r /\ pc'[q] \in {"create", "record", "append"}
      BY <1>1, <1>2, <2>5, <2>6, EnrollmentAssumption DEF EnrollInv, LocksHeld, s
    <3> QED BY <3>1, <3>2 DEF LocksHeld
  <2>10. ClaimStands' /\ NamesResolve' /\ LogRegistered'
    BY <1>3, <2>5 DEF EnrollInv, ClaimStands, NamesResolve, LogRegistered
  <2>11. Leaves'
    <3>1. \A q \in Deliveries : Standing(Session(q))' = Standing(Session(q))
      BY <1>3 DEF Standing
    <3>2. \A q \in Deliveries : Session(q) \in Sessions
      BY DEF Deliveries, Session
    <3>3. \A q \in Deliveries : Standing(Session(q)) \in Ids => record[Standing(Session(q))] # None
      BY <3>2, StandingRegistered DEF EnrollInv
    <3> QED BY <1>1, <1>3, <2>2, <2>3, <2>4, <2>5, <3>1, <3>3 DEF EnrollInv, Leaves, s
  <2>12. Authored'
    BY <1>1, <1>2, <1>3, <2>5 DEF EnrollInv, Authored
  <2> QED BY <2>7, <2>8, <2>9, <2>10, <2>11, <2>12 DEF EnrollInv
<1> QED BY <1>5, <1>6

(* The claim binds the name to a workstream no other name is claimed for. *)
LEMMA WriteClaimStep ==
  ASSUME EnrollInv, NEW p \in Processes, WriteClaim(p)
  PROVE  EnrollInv'
<1> DEFINE n == asked[p].name
<1>1. pc[p] = "create" /\ storeLock = None /\ Resolve(n) = None
  BY DEF WriteClaim, ClaimName
<1>2. n \in Names /\ asked[p] \in Invocations
  BY <1>1 DEF EnrollInv, Started, Invocations
<1>3. PICK id \in Ids : /\ record[id] = None /\ \A m \in Names : claim[m] # id
                        /\ claim' = [claim EXCEPT ![n] = id]
                        /\ target' = [target EXCEPT ![p] = id]
  BY DEF WriteClaim, ClaimName
<1>4. storeLock' = p /\ pc' = [pc EXCEPT ![p] = "record"]
  BY DEF WriteClaim, ClaimName
<1>5. /\ record' = record /\ log' = log /\ sessionLock' = sessionLock /\ prompts' = prompts
      /\ asked' = asked /\ seen' = seen /\ spent' = spent
  BY DEF WriteClaim, ClaimName
<1> HIDE DEF n
<1>6. \A q \in Processes :
        /\ pc'[q] = IF q = p THEN "record" ELSE pc[q]
        /\ target'[q] = IF q = p THEN id ELSE target[q]
  BY <1>3, <1>4 DEF EnrollInv, TypeOK
<1>7. \A m \in Names : claim'[m] = IF m = n THEN id ELSE claim[m]
  BY <1>3 DEF EnrollInv, TypeOK
<1>8. \A q \in Processes : pc[q] # "record"
  BY <1>1, EnrollmentAssumption DEF EnrollInv, LocksHeld
<1>9. \A j \in Ids : record[j] # None => record[j].name # n
  <2>1. \A j \in Ids : record[j] # None /\ record[j].name = n => claim[n] = j
    BY DEF EnrollInv, NamesResolve
  <2> QED BY <1>1, <1>2, <2>1, ResolveType, EnrollmentAssumption DEF EnrollInv, n
<1>10. Deliveries \subseteq Processes
  BY DEF Processes
<1>11. TypeOK'
  BY <1>2, <1>3, <1>4, <1>5 DEF EnrollInv, TypeOK, Running
<1>12. Started'
  BY <1>1, <1>5, <1>6, <1>10 DEF EnrollInv, Started
<1>13. LocksHeld'
  BY <1>1, <1>4, <1>5, <1>6, <1>8, <1>10 DEF EnrollInv, LocksHeld
<1>14. ClaimStands'
  BY <1>2, <1>3, <1>5, <1>6, <1>7, <1>8 DEF ClaimStands, n
<1>15. NamesResolve'
  BY <1>3, <1>5, <1>7, <1>9 DEF EnrollInv, NamesResolve, TypeOK, Records
<1>16. LogRegistered'
  BY <1>5 DEF EnrollInv, LogRegistered
<1>17. Leaves'
  <2>1. \A q \in Deliveries : Standing(Session(q))' = Standing(Session(q))
    BY <1>5 DEF Standing
  <2> QED BY <1>1, <1>5, <1>6, <1>10, <2>1 DEF EnrollInv, Leaves
<1>18. Authored'
  BY <1>1, <1>5, <1>6, <1>10 DEF EnrollInv, Authored
<1> QED BY <1>11, <1>12, <1>13, <1>14, <1>15, <1>16, <1>17, <1>18 DEF EnrollInv

LEMMA WriteRecordStep ==
  ASSUME EnrollInv, NEW p \in Processes, WriteRecord(p)
  PROVE  EnrollInv'
<1> DEFINE id == target[p]
           n == asked[p].name
           x == IF p \in Deliveries THEN "append" ELSE "moved"
           r == [name |-> n, status |-> "open", by |-> p]
<1>1. pc[p] = "record" /\ storeLock' = None
  BY DEF WriteRecord
<1>2. record' = [record EXCEPT ![id] = r] /\ pc' = [pc EXCEPT ![p] = x]
  BY DEF WriteRecord
<1>3. /\ claim' = claim /\ log' = log /\ sessionLock' = sessionLock /\ prompts' = prompts
      /\ asked' = asked /\ seen' = seen /\ target' = target /\ spent' = spent
  BY DEF WriteRecord
<1>4. id \in Ids /\ record[id] = None /\ claim[n] = id /\ storeLock = p
  BY <1>1 DEF EnrollInv, ClaimStands, LocksHeld
<1>5. n \in Names /\ r \in Records /\ r # None /\ r.name = n /\ r.by = p
  BY <1>1, EnrollmentAssumption DEF EnrollInv, Started, Invocations, Records
<1> HIDE DEF id, n, x, r
<1>6. \A j \in Ids : record'[j] = IF j = id THEN r ELSE record[j]
  BY <1>2 DEF EnrollInv, TypeOK
<1>7. \A q \in Processes : pc'[q] = IF q = p THEN x ELSE pc[q]
  BY <1>2 DEF EnrollInv, TypeOK
<1>8. \A q \in Processes : pc[q] = "record" => q = p
  BY <1>4 DEF EnrollInv, LocksHeld
<1>9. Deliveries \subseteq Processes /\ x \in {"append", "moved"} /\ (x = "append" <=> p \in Deliveries)
  BY DEF Processes, x
<1>10. TypeOK'
  BY <1>1, <1>2, <1>3, <1>4, <1>5, <1>9 DEF EnrollInv, TypeOK, Running, Ended
<1>11. Started'
  BY <1>1, <1>3, <1>7, <1>9 DEF EnrollInv, Started
<1>12. LocksHeld'
  BY <1>1, <1>3, <1>7, <1>8, <1>9, EnrollmentAssumption DEF EnrollInv, LocksHeld
<1>13. ClaimStands'
  BY <1>7, <1>8, <1>9 DEF ClaimStands
<1>14. NamesResolve'
  BY <1>3, <1>4, <1>5, <1>6 DEF EnrollInv, NamesResolve
<1>15. LogRegistered'
  BY <1>3, <1>5, <1>6 DEF EnrollInv, LogRegistered
<1>16. Leaves'
  <2>1. \A q \in Deliveries : Standing(Session(q))' = Standing(Session(q))
    BY <1>3 DEF Standing
  <2>2. \A q \in Deliveries : Session(q) \in Sessions
    BY DEF Deliveries, Session
  <2>3. \A q \in Deliveries : Standing(Session(q)) \in Ids => record[Standing(Session(q))] # None
    BY <2>2, StandingRegistered DEF EnrollInv
  <2>4. p \in Deliveries => Standing(Session(p)) # id
    BY <1>4, <2>3
  <2>5. target[p] = id
    BY DEF id
  <2> QED BY <1>3, <1>4, <1>5, <1>6, <1>7, <1>9, <2>1, <2>3, <2>4, <2>5 DEF EnrollInv, Leaves
<1>17. Authored'
  <2>1. target[p] = id
    BY DEF id
  <2>2. \A j \in Ids : j # id /\ record[j] # None => record[j].by # p \/ p \notin Deliveries
    BY <1>1 DEF EnrollInv, Authored
  <2> QED BY <1>3, <1>4, <1>5, <1>6, <1>7, <1>9, <2>1, <2>2 DEF EnrollInv, Authored
<1> QED BY <1>10, <1>11, <1>12, <1>13, <1>14, <1>15, <1>16, <1>17 DEF EnrollInv

(* A process ends and gives back what it holds: it was killed, or it had not
   begun to write. *)
LEMMA EndStep ==
  ASSUME EnrollInv, TypeOK', NEW p \in Processes,
         pc[p] \in Running,
         \E x \in {"refused", "failed", "dead"} :
             /\ pc' = [pc EXCEPT ![p] = x]
             /\ x # "dead" => pc[p] \in {"enter", "create"},
         sessionLock' = Unlocked(p),
         storeLock' = IF storeLock = p THEN None ELSE storeLock,
         UNCHANGED <<files, prompts, asked, target>>
  PROVE  EnrollInv'
<1> PICK x \in {"refused", "failed", "dead"} :
            /\ pc' = [pc EXCEPT ![p] = x]
            /\ x # "dead" => pc[p] \in {"enter", "create"}
  OBVIOUS
<1>1. \A q \in Processes : pc'[q] = IF q = p THEN x ELSE pc[q]
  BY DEF EnrollInv, TypeOK
<1>2. /\ claim' = claim /\ record' = record /\ log' = log /\ prompts' = prompts
      /\ asked' = asked /\ target' = target
  BY DEF files
<1>3. Deliveries \subseteq Processes /\ pc[p] # "idle" /\ None \notin Processes
  BY EnrollmentAssumption DEF Processes, Running
<1>4. \A s \in Sessions : sessionLock'[s] = IF sessionLock[s] = p THEN None ELSE sessionLock[s]
  BY DEF Unlocked
<1>5. Started'
  BY <1>1, <1>2, <1>3 DEF EnrollInv, Started
<1>6. LocksHeld'
  <2>1. \A q \in Processes : storeLock' = q <=> pc'[q] = "record"
    BY <1>1, <1>3 DEF EnrollInv, LocksHeld
  <2>2. ASSUME NEW s \in Sessions, NEW d \in Deliveries
        PROVE  sessionLock'[s] = d
                 <=> Session(d) = s /\ pc'[d] \in {"create", "record", "append"}
    BY <1>1, <1>3, <1>4 DEF EnrollInv, LocksHeld
  <2> QED BY <2>1, <2>2 DEF LocksHeld
<1>7. ClaimStands' /\ NamesResolve' /\ LogRegistered'
  BY <1>1, <1>2 DEF EnrollInv, ClaimStands, NamesResolve, LogRegistered
<1>8. Leaves'
  <2>1. \A q \in Deliveries : Standing(Session(q))' = Standing(Session(q))
    BY <1>2 DEF Standing
  <2> QED BY <1>1, <1>2, <1>3, <2>1 DEF EnrollInv, Leaves
<1>9. Authored'
  <2>1. ASSUME NEW id \in Ids, record[id] # None, record[id].by = p, p \in Deliveries
        PROVE  pc[p] \in {"append", "moved", "dead"}
    BY <2>1 DEF EnrollInv, Authored
  <2> QED BY <1>1, <1>2, <1>3, <2>1 DEF EnrollInv, Authored, Running
<1> QED BY <1>5, <1>6, <1>7, <1>8, <1>9 DEF EnrollInv

LEMMA UnlockedType ==
  ASSUME TypeOK, NEW p
  PROVE  Unlocked(p) \in [Sessions -> Deliveries \union {None}]
  BY DEF TypeOK, Unlocked

LEMMA GiveUpStep ==
  ASSUME EnrollInv, NEW p \in Processes, GiveUp(p)
  PROVE  EnrollInv'
<1>1. /\ pc[p] \in {"enter", "create"} /\ pc' = [pc EXCEPT ![p] = "failed"]
      /\ sessionLock' = Unlocked(p) /\ storeLock' = storeLock /\ UNCHANGED <<seen, spent>>
      /\ UNCHANGED <<files, prompts, asked, target>>
  BY DEF GiveUp
<1>2. storeLock # p
  BY <1>1 DEF EnrollInv, LocksHeld
<1>3. TypeOK'
  BY <1>1, UnlockedType DEF EnrollInv, TypeOK, Ended, files
<1>4. pc[p] \in Running
  BY <1>1 DEF Running
<1> QED BY <1>1, <1>2, <1>3, <1>4, EndStep

LEMMA DieStep ==
  ASSUME EnrollInv, NEW p \in Processes, Die(p)
  PROVE  EnrollInv'
<1>1. /\ pc[p] \in Running /\ pc' = [pc EXCEPT ![p] = "dead"]
      /\ sessionLock' = Unlocked(p) /\ seen' = seen
      /\ storeLock' = IF storeLock = p THEN None ELSE storeLock
      /\ UNCHANGED <<files, prompts, asked, target>>
  BY DEF Die
<1>2. spent' \in [changes : 0..MaxStatusChanges, deaths : 0..MaxDeaths]
  <2>1. spent.deaths < MaxDeaths /\ spent' = [spent EXCEPT !.deaths = spent.deaths + 1]
    BY DEF Die
  <2>2. spent \in [changes : 0..MaxStatusChanges, deaths : 0..MaxDeaths] /\ MaxDeaths \in Nat
    BY EnrollmentAssumption DEF EnrollInv, TypeOK
  <2> QED BY <2>1, <2>2
<1>3. TypeOK'
  BY <1>1, <1>2, UnlockedType DEF EnrollInv, TypeOK, Ended, files
<1> QED BY <1>1, <1>3, EndStep

LEMMA NameTakenStep ==
  ASSUME EnrollInv, NEW p \in Processes, NameTaken(p)
  PROVE  EnrollInv'
<1> DEFINE w == Resolve(asked[p].name)
           joins == /\ p \in Deliveries /\ record[w].status = "open"
                    /\ Standing(Session(p)) # None
<1>1. /\ pc[p] = "create" /\ storeLock = None /\ w # None
      /\ UNCHANGED <<files, storeLock, prompts, asked, seen, spent>>
  BY DEF NameTaken
<1>2. asked[p].name \in Names
  BY <1>1 DEF EnrollInv, Started, Invocations
<1>3. w \in Ids /\ record[w] # None /\ record[w].name = asked[p].name
  BY <1>1, <1>2, ResolveType DEF EnrollInv
<1>4. CASE ~joins
  <2>1. pc' = [pc EXCEPT ![p] = "refused"] /\ sessionLock' = Unlocked(p) /\ target' = target
    BY <1>4 DEF NameTaken
  <2>2. storeLock # p /\ pc[p] \in Running
    BY <1>1, EnrollmentAssumption DEF Running
  <2>3. TypeOK'
    BY <1>1, <2>1, UnlockedType DEF EnrollInv, TypeOK, Ended, files
  <2> QED BY <1>1, <2>1, <2>2, <2>3, EndStep
<1>5. CASE joins
  <2>1. /\ pc' = [pc EXCEPT ![p] = "append"] /\ target' = [target EXCEPT ![p] = w]
        /\ sessionLock' = sessionLock
    BY <1>5 DEF NameTaken
  <2>2. p \in Deliveries /\ Session(p) \in Sessions /\ Deliveries \subseteq Processes
    BY <1>5 DEF Processes, Deliveries, Session
  <2>3. Standing(Session(p)) # w
    BY <1>1, <1>3, <2>2 DEF EnrollInv, Leaves
  <2>4. /\ claim' = claim /\ record' = record /\ log' = log /\ storeLock' = storeLock
        /\ prompts' = prompts /\ asked' = asked /\ seen' = seen /\ spent' = spent
    BY <1>1 DEF files
  <2> HIDE DEF w
  <2>5. \A q \in Processes :
          /\ pc'[q] = IF q = p THEN "append" ELSE pc[q]
          /\ target'[q] = IF q = p THEN w ELSE target[q]
    BY <2>1 DEF EnrollInv, TypeOK
  <2>6. TypeOK'
    BY <1>3, <2>1, <2>4 DEF EnrollInv, TypeOK, Running
  <2>7. Started'
    BY <1>1, <2>2, <2>4, <2>5 DEF EnrollInv, Started
  <2>8. LocksHeld'
    BY <1>1, <2>1, <2>2, <2>4, <2>5 DEF EnrollInv, LocksHeld
  <2>9. ClaimStands' /\ NamesResolve' /\ LogRegistered'
    BY <2>4, <2>5 DEF EnrollInv, ClaimStands, NamesResolve, LogRegistered
  <2>10. Leaves'
    <3>1. \A q \in Deliveries : Standing(Session(q))' = Standing(Session(q))
      BY <2>4 DEF Standing
    <3> QED BY <1>3, <2>2, <2>3, <2>4, <2>5, <3>1 DEF EnrollInv, Leaves
  <2>11. Authored'
    BY <1>1, <2>2, <2>4, <2>5 DEF EnrollInv, Authored
  <2> QED BY <2>6, <2>7, <2>8, <2>9, <2>10, <2>11 DEF EnrollInv
<1> QED BY <1>4, <1>5

(* The lock of its session is the hook's: nobody else stands before a write
   that counts on the membership that changes. *)
LEMMA AppendStep ==
  ASSUME EnrollInv, NEW d \in Deliveries, AppendMembership(d)
  PROVE  EnrollInv'
<1> DEFINE s == Session(d)
           id == target[d]
<1>1. /\ pc[d] = "append" /\ pc' = [pc EXCEPT ![d] = "moved"]
      /\ log' = [log EXCEPT ![s] = Append(log[s], id)]
      /\ sessionLock' = Unlocked(d)
      /\ target' = [target EXCEPT ![d] = None]
  BY DEF AppendMembership
<1>2. /\ claim' = claim /\ record' = record /\ storeLock' = storeLock /\ prompts' = prompts
      /\ asked' = asked /\ seen' = seen /\ spent' = spent
  BY DEF AppendMembership
<1>3. d \in Processes /\ s \in Sessions /\ Deliveries \subseteq Processes
  BY DEF Processes, Deliveries, Session
<1>4. id \in Ids /\ record[id] # None /\ log[s] \in Seq(Ids \union {Unscoped})
  BY <1>1, <1>3 DEF EnrollInv, Leaves, TypeOK
<1> HIDE DEF s, id
<1>5. \A q \in Processes :
        /\ pc'[q] = IF q = d THEN "moved" ELSE pc[q]
        /\ target'[q] = IF q = d THEN None ELSE target[q]
  BY <1>1 DEF EnrollInv, TypeOK
<1>6. \A r \in Sessions : log'[r] = IF r = s THEN Append(log[s], id) ELSE log[r]
  BY <1>1 DEF EnrollInv, TypeOK
<1>7. \A r \in Sessions : sessionLock'[r] = IF sessionLock[r] = d THEN None ELSE sessionLock[r]
  BY <1>1 DEF Unlocked
<1>8. Append(log[s], id) \in Seq(Ids \union {Unscoped})
  BY <1>4
<1>9. TypeOK'
  <2>1. log' \in [Sessions -> Seq(Ids \union {Unscoped})]
    BY <1>1, <1>8 DEF EnrollInv, TypeOK
  <2> QED BY <1>1, <1>2, <2>1, UnlockedType DEF EnrollInv, TypeOK, Ended
<1>10. Started'
  BY <1>1, <1>2, <1>3, <1>5 DEF EnrollInv, Started
<1>11. LocksHeld'
  <2>1. \A q \in Processes : storeLock' = q <=> pc'[q] = "record"
    BY <1>1, <1>2, <1>5 DEF EnrollInv, LocksHeld
  <2>2. None \notin Deliveries
    BY <1>3, EnrollmentAssumption
  <2>3. ASSUME NEW r \in Sessions, NEW q \in Deliveries
        PROVE  sessionLock'[r] = q
                 <=> Session(q) = r /\ pc'[q] \in {"create", "record", "append"}
    BY <1>3, <1>5, <1>7, <2>2 DEF EnrollInv, LocksHeld
  <2> QED BY <2>1, <2>3 DEF LocksHeld
<1>12. ClaimStands' /\ NamesResolve'
  BY <1>1, <1>2, <1>5 DEF EnrollInv, ClaimStands, NamesResolve
<1>13. LogRegistered'
  <2> SUFFICES ASSUME NEW r \in Sessions, NEW i \in DOMAIN log'[r], log'[r][i] \in Ids
               PROVE  record[log'[r][i]] # None
    BY <1>2 DEF LogRegistered
  <2>1. CASE r # s
    BY <1>6, <2>1 DEF EnrollInv, LogRegistered
  <2>2. CASE r = s
    <3>1. log'[r] = Append(log[s], id)
      BY <1>6, <2>2
    <3>2. log'[r][i] = id \/ (i \in DOMAIN log[s] /\ log'[r][i] = log[s][i])
      BY <1>4, <3>1
    <3> QED BY <1>3, <1>4, <3>2 DEF EnrollInv, LogRegistered
  <2> QED BY <2>1, <2>2
<1>14. \A q \in Deliveries : q # d /\ pc[q] \in {"create", "append"} => Session(q) # s
  BY <1>1, <1>3 DEF EnrollInv, LocksHeld, s
<1>15. Leaves'
  <2>1. \A q \in Deliveries : Session(q) # s => Standing(Session(q))' = Standing(Session(q))
    <3>1. \A q \in Deliveries : Session(q) \in Sessions
      BY DEF Deliveries, Session
    <3> QED BY <1>6, <3>1 DEF Standing
  <2> QED BY <1>2, <1>3, <1>5, <1>14, <2>1 DEF EnrollInv, Leaves
<1>16. Authored'
  <2>1. \A e \in Range(log[s]) : e \in Range(Append(log[s], id))
    BY <1>4 DEF Range
  <2>2. id \in Range(Append(log[s], id))
    <3>1. Append(log[s], id)[Len(log[s]) + 1] = id /\ Len(log[s]) + 1 \in DOMAIN Append(log[s], id)
      BY <1>4
    <3> QED BY <3>1 DEF Range
  <2>3. \A r \in Sessions : \A e \in Range(log[r]) : e \in Range(log'[r])
    BY <1>6, <2>1
  <2>4. Session(d) = s /\ target[d] = id
    BY DEF s, id
  <2>5. \A q \in Deliveries : Session(q) \in Sessions
    BY DEF Deliveries, Session
  <2>6. ASSUME NEW j \in Ids, record'[j] # None, record'[j].by \in Deliveries
        PROVE  LET q == record'[j].by
               IN  \/ pc'[q] = "append" /\ target'[q] = j
                   \/ pc'[q] = "moved" /\ j \in Range(log'[Session(q)])
                   \/ pc'[q] = "dead"
    <3>1. CASE record[j].by = d
      BY <1>1, <1>2, <1>3, <1>5, <1>6, <2>2, <2>3, <2>4, <2>6, <3>1 DEF EnrollInv, Authored
    <3>2. CASE record[j].by # d
      BY <1>2, <1>3, <1>5, <2>3, <2>5, <2>6, <3>2 DEF EnrollInv, Authored
    <3> QED BY <3>1, <3>2
  <2> QED BY <2>6 DEF Authored
<1> QED BY <1>9, <1>10, <1>11, <1>12, <1>13, <1>15, <1>16 DEF EnrollInv

-----------------------------------------------------------------------------
LEMMA StepEnrollInv == EnrollInv /\ [Next]_vars => EnrollInv'
<1> SUFFICES ASSUME EnrollInv, [Next]_vars PROVE EnrollInv'
  OBVIOUS
<1>1. CASE UNCHANGED vars
  <2>1. /\ claim' = claim /\ record' = record /\ log' = log /\ storeLock' = storeLock
        /\ sessionLock' = sessionLock /\ prompts' = prompts /\ asked' = asked /\ pc' = pc
        /\ seen' = seen /\ target' = target /\ spent' = spent
    BY <1>1 DEF vars
  <2>2. TypeOK' /\ Started' /\ LocksHeld' /\ ClaimStands' /\ NamesResolve' /\ LogRegistered'
    BY <2>1 DEF EnrollInv, TypeOK, Started, LocksHeld, ClaimStands, NamesResolve, LogRegistered
  <2>3. Leaves' /\ Authored'
    BY <2>1 DEF EnrollInv, Leaves, Authored, Standing
  <2> QED BY <2>2, <2>3 DEF EnrollInv
<1>2. ASSUME NEW s \in Sessions, NEW inv \in Invocations, Prompt(s, inv)
      PROVE  EnrollInv'
  BY <1>2, PromptStep
<1>3. ASSUME NEW c \in Commands, NEW n \in Names, Command(c, n)
      PROVE  EnrollInv'
  BY <1>3, CommandStep
<1>4. ASSUME NEW n \in Names, NEW status \in {"open", "completed"}, SetStatus(n, status)
      PROVE  EnrollInv'
  BY <1>4, SetStatusStep
<1>5. ASSUME NEW d \in Deliveries, Admit(d)
      PROVE  EnrollInv'
  BY <1>5, LookStep, PrecheckStep, EnterStep, AppendStep DEF Admit
<1>6. ASSUME NEW p \in Processes, Create(p) \/ GiveUp(p) \/ Die(p)
      PROVE  EnrollInv'
  BY <1>6, WriteClaimStep, WriteRecordStep, NameTakenStep, GiveUpStep, DieStep DEF Create
<1> QED BY <1>1, <1>2, <1>3, <1>4, <1>5, <1>6 DEF Next

LEMMA EnrollInvHolds == Spec => []EnrollInv
  BY InitEnrollInv, StepEnrollInv, PTL DEF Spec

(* However prompts, commands and deaths interleave, a name on record resolves
   to its workstream for good, and a hook that created a workstream is still
   at work, has put its session into it, or was killed: the store and the
   memberships belong together (WorkstreamStore.create, #enroll). *)
THEOREM Sound == Spec => []StoreSound
<1>1. EnrollInv => StoreSound
  <2> SUFFICES ASSUME EnrollInv PROVE NoOrphan
    BY DEF EnrollInv, StoreSound
  <2> QED BY DEF EnrollInv, Authored, NoOrphan, Running
<1> QED BY <1>1, EnrollInvHolds, PTL

-----------------------------------------------------------------------------
(* Enrollment implements Membership, step by step. *)

workstreams == {[id |-> i, name |-> record[i].name] : i \in {j \in Ids : record[j] # None}}

LEMMA InitMembership == Init => Abstract!Init
<1> SUFFICES ASSUME Init PROVE Abstract!Init
  OBVIOUS
<1>1. \A i \in Ids : record[i] = None
  BY DEF Init
<1> QED BY <1>1 DEF Init, Abstract!Init

(* Where records and memberships stay, Membership stands still. *)
LEMMA Stutters ==
  ASSUME log' = log,
         \A i \in Ids : /\ record'[i] = None <=> record[i] = None
                        /\ record[i] # None => record'[i].name = record[i].name
  PROVE  UNCHANGED Abstract!vars
<1>1. workstreams' = workstreams
  BY DEF workstreams
<1> QED BY <1>1 DEF Abstract!vars, workstreams

(* The record of a creation registers a workstream whose name is free. *)
LEMMA RecordRegisters ==
  ASSUME EnrollInv, NEW p \in Processes, WriteRecord(p)
  PROVE  Abstract!Register(target[p], asked[p].name)
<1> DEFINE id == target[p]
           n == asked[p].name
           r == [name |-> n, status |-> "open", by |-> p]
<1>1. pc[p] = "record" /\ record' = [record EXCEPT ![id] = r] /\ log' = log
  BY DEF WriteRecord
<1>2. id \in Ids /\ record[id] = None /\ claim[n] = id
  BY <1>1 DEF EnrollInv, ClaimStands
<1>3. r \in Records /\ r # None /\ r.name = n
  BY <1>1, EnrollmentAssumption DEF EnrollInv, Started, Invocations, Records
<1> HIDE DEF id, n, r
<1>4. \A j \in Ids : record'[j] = IF j = id THEN r ELSE record[j]
  BY <1>1 DEF EnrollInv, TypeOK
<1>5. \A w \in workstreams : w.id # id /\ w.name # n
  <2> SUFFICES ASSUME NEW j \in Ids, record[j] # None
               PROVE  j # id /\ record[j].name # n
    BY DEF workstreams
  <2> QED BY <1>2 DEF EnrollInv, NamesResolve
<1>6. workstreams' = workstreams \union {[id |-> id, name |-> n]}
  <2>1. ASSUME NEW w \in workstreams'
        PROVE  w \in workstreams \/ w = [id |-> id, name |-> n]
    <3>1. PICK j \in Ids : record'[j] # None /\ w = [id |-> j, name |-> record'[j].name]
      BY <2>1 DEF workstreams
    <3> QED BY <1>3, <1>4, <3>1 DEF workstreams
  <2>2. ASSUME NEW w \in workstreams
        PROVE  w \in workstreams'
    <3>1. PICK j \in Ids : record[j] # None /\ w = [id |-> j, name |-> record[j].name]
      BY <2>2 DEF workstreams
    <3>2. j # id
      BY <1>2, <3>1
    <3> QED BY <1>4, <3>1, <3>2 DEF workstreams
  <2>3. [id |-> id, name |-> n] \in workstreams'
    BY <1>2, <1>3, <1>4 DEF workstreams
  <2> QED BY <2>1, <2>2, <2>3
<1> QED BY <1>1, <1>5, <1>6 DEF Abstract!Register, workstreams, id, n

(* A membership is appended to the log of a session that does not stand in
   that workstream, which is registered. *)
LEMMA AppendMoves ==
  ASSUME EnrollInv, NEW d \in Deliveries, AppendMembership(d)
  PROVE  Abstract!Move(Session(d), target[d])
<1>1. /\ pc[d] = "append" /\ record' = record
      /\ log' = [log EXCEPT ![Session(d)] = Append(@, target[d])]
  BY DEF AppendMembership
<1>2. target[d] \in Ids /\ record[target[d]] # None /\ Standing(Session(d)) # target[d]
  BY <1>1 DEF EnrollInv, Leaves
<1>3. [id |-> target[d], name |-> record[target[d]].name] \in workstreams
  BY <1>2 DEF workstreams
<1>4. workstreams' = workstreams
  BY <1>1 DEF workstreams
<1> QED BY <1>1, <1>2, <1>3, <1>4
        DEF Abstract!Move, workstreams, Standing, Last, Abstract!Last

LEMMA StepMembership == EnrollInv /\ [Next]_vars => [Abstract!Next]_(Abstract!vars)
<1> SUFFICES ASSUME EnrollInv, [Next]_vars PROVE [Abstract!Next]_(Abstract!vars)
  OBVIOUS
<1>1. CASE UNCHANGED files
  BY <1>1, Stutters DEF files
<1>2. ASSUME NEW n \in Names, NEW status \in {"open", "completed"}, SetStatus(n, status)
      PROVE  UNCHANGED Abstract!vars
  <2>1. Resolve(n) \in Ids /\ record[Resolve(n)] # None
    BY <1>2, ResolveType DEF EnrollInv, SetStatus
  <2>2. /\ log' = log
        /\ record' = [record EXCEPT ![Resolve(n)].status = status]
    BY <1>2 DEF SetStatus
  <2>3. record \in [Ids -> Records \union {None}]
    BY DEF EnrollInv, TypeOK
  <2>4. /\ record'[Resolve(n)] \in Records
        /\ record'[Resolve(n)].name = record[Resolve(n)].name
    BY <2>1, <2>2, <2>3 DEF Records
  <2>5. \A i \in Ids : i # Resolve(n) => record'[i] = record[i]
    BY <2>1, <2>2, <2>3
  <2> QED BY <2>1, <2>2, <2>4, <2>5, Stutters, EnrollmentAssumption
<1>3. ASSUME NEW p \in Processes, WriteClaim(p)
      PROVE  UNCHANGED Abstract!vars
  BY <1>3, Stutters DEF WriteClaim, ClaimName
<1>4. ASSUME NEW p \in Processes, WriteRecord(p)
      PROVE  Abstract!Next
  <2>1. target[p] \in Ids /\ asked[p].name \in Names
    BY <1>4 DEF WriteRecord, EnrollInv, ClaimStands, Started, Invocations
  <2>2. Abstract!Register(target[p], asked[p].name)
    BY <1>4, RecordRegisters
  <2> QED BY <2>1, <2>2 DEF Abstract!Next, Abstract!Register
<1>5. ASSUME NEW d \in Deliveries, AppendMembership(d)
      PROVE  Abstract!Next
  <2>1. target[d] \in Ids /\ Session(d) \in Sessions
    BY <1>5 DEF AppendMembership, EnrollInv, Leaves, Deliveries, Session
  <2> QED BY <1>5, <2>1, AppendMoves DEF Abstract!Next
<1>6. CASE \E s \in Sessions, inv \in Invocations : Prompt(s, inv)
  BY <1>1, <1>6 DEF Prompt
<1>7. CASE \E c \in Commands, n \in Names : Command(c, n)
  BY <1>1, <1>7 DEF Command
<1>8. CASE \E d \in Deliveries : Admit(d)
  BY <1>1, <1>5, <1>8 DEF Admit, Look, Precheck, Enter
<1>9. CASE \E p \in Processes : Create(p) \/ GiveUp(p) \/ Die(p)
  BY <1>1, <1>3, <1>4, <1>9 DEF Create, NameTaken, GiveUp, Die
<1>10. CASE UNCHANGED vars
  BY <1>1, <1>10 DEF vars, files
<1> QED BY <1>2, <1>6, <1>7, <1>8, <1>9, <1>10 DEF Next

(* The hooks and commands of enrollment implement Membership: only registered
   workstreams are joined, a name is given once, and the memberships of a
   session form a log that only grows and never repeats the current one. *)
THEOREM Implements == Spec => ImplementsMembership
  BY InitMembership, EnrollInvHolds, StepMembership, PTL
     DEF Spec, ImplementsMembership, Abstract!Spec

=============================================================================
