------------------------ MODULE DirectoryLockProofs ------------------------
(***************************************************************************)
(* Theorems of DirectoryLock for every set of processes and hosts.         *)
(***************************************************************************)
EXTENDS DirectoryLock, TLAPS

(* Every variable keeps its type (the state of directory-lock.ts's
   callers and of the lock directory). *)
THEOREM TypeCorrect == Spec => []TypeOK
<1>1. Init => TypeOK
  BY DEF Init, TypeOK, PCs, Gone
<1>2. TypeOK /\ [Next]_vars => TypeOK'
  <2> SUFFICES ASSUME TypeOK, [Next]_vars PROVE TypeOK'
    OBVIOUS
  <2> USE DEF TypeOK, PCs, Gone, Holding, Verdict, Waiting, Goto
  <2>1. CASE UNCHANGED vars
    BY <2>1 DEF vars
  <2>2. CASE Elapse
    BY <2>2 DEF Elapse
  <2>3. ASSUME NEW p \in Processes, Start(p) \/ Crash(p) \/ Reuse(p)
        PROVE  TypeOK'
    BY <2>3 DEF Start, Crash, Reuse
  <2>4. ASSUME NEW p \in Processes, Step(p)
        PROVE  TypeOK'
    <3>1. CASE MkDir(p) \/ Timeout(p) \/ Poll(p) \/ Finish(p) \/ ReleaseRead(p)
      BY <3>1 DEF MkDir, Timeout, Poll, Finish, ReleaseRead
    <3>2. CASE CreateOwner(p)
      BY <3>2, LockAssumption DEF CreateOwner, Owners
    <3>3. CASE CreateOwnerExists(p) \/ CreateOwnerMissing(p)
      BY <3>3 DEF CreateOwnerExists, CreateOwnerMissing
    <3>4. CASE WriteOwner(p) \/ WriteOwnerFails(p)
      <4>1. Mine(p) \in Owners
        BY DEF Mine, Owners
      <4>2. file' \in Owners \union {NoFile}
        BY <3>4, <4>1 DEF WriteOwner, WriteOwnerFails, WriteRecord
      <4>3. pc' \in [Processes -> PCs] /\ retry' \in [Processes -> BOOLEAN]
        BY <3>4 DEF WriteOwner, WriteOwnerFails
      <4>4. file' = file \/ (file' = Mine(p) /\ file # NoFile)
        <5>1. [proc |-> p, n |-> issued[p], done |-> FALSE] # NoFile
          <6>1. [proc |-> p, n |-> issued[p], done |-> FALSE]
                  \in [proc : Processes, n : Nat, done : BOOLEAN]
            OBVIOUS
          <6> QED BY <6>1, LockAssumption
        <5>2. file' = file \/ WriteRecord(p)
          BY <3>4 DEF WriteOwner, WriteOwnerFails
        <5> QED BY <5>1, <5>2 DEF WriteRecord
      <4>5. file' # NoFile => dir # "none" /\ file'.n <= issued[file'.proc]
        BY <4>4 DEF Mine
      <4> QED BY <3>4, <4>2, <4>3, <4>5 DEF WriteOwner, WriteOwnerFails
    <3>5. CASE AbortUnlink(p) \/ AbortRmdir(p)
      BY <3>5 DEF AbortUnlink, AbortRmdir
    <3>6. CASE RecoverStat(p)
      BY <3>6 DEF RecoverStat
    <3>7. CASE RecoverJudge(p)
      BY <3>7 DEF RecoverJudge, ReadOwner
    <3>8. CASE RecoverReread(p) \/ RecoverUnlink(p) \/ RecoverRmdir(p)
      BY <3>8 DEF RecoverReread, RecoverUnlink, RecoverRmdir
    <3>9. CASE ReleaseUnlink(p) \/ ReleaseRmdir(p)
      BY <3>9 DEF ReleaseUnlink, ReleaseRmdir
    <3> QED BY <2>4, <3>1, <3>2, <3>3, <3>4, <3>5, <3>6, <3>7, <3>8, <3>9
            DEF Step
  <2> QED BY <2>1, <2>2, <2>3, <2>4 DEF Next
<1> QED BY <1>1, <1>2, PTL DEF Spec

-----------------------------------------------------------------------------
(* The inductive invariant of mutual exclusion: one process at a time is in
   the region from mkdir, or from a stale verdict, to the rmdir. *)
Region == Holding \union Verdict

OneInRegion ==
    \A p, q \in Processes : pc[p] \in Region /\ pc[q] \in Region => p = q

DirBacksRegion ==
    \A p \in Processes : pc[p] \in Region => dir # "none"

Partial(p) == [proc |-> p, n |-> issued[p], done |-> FALSE]

FileOfHolder ==
    \A p \in Processes :
        /\ pc[p] \in {"open", "abortRmdir", "relRmdir", "rmdir"}
              => file = NoFile
        /\ pc[p] = "write" => file = Partial(p)
        /\ pc[p] = "abortUnlink" => file \in {Partial(p), Mine(p)}
        /\ pc[p] \in {"cs", "relRead", "relUnlink"} => file = Mine(p)

FreshWhileHeld == \A p \in Processes : pc[p] \in Holding => dir = "fresh"

AgedIsOld ==
    \A p \in Processes : pc[p] = "judge" /\ aged[p] => dir = "old"

LockInv ==
    /\ TypeOK
    /\ OneInRegion
    /\ DirBacksRegion
    /\ FileOfHolder
    /\ FreshWhileHeld
    /\ AgedIsOld

LEMMA InitLockInv == Init => LockInv
  BY DEF Init, LockInv, TypeOK, PCs, Gone, OneInRegion, DirBacksRegion, FileOfHolder,
         FreshWhileHeld, AgedIsOld, Region, Holding, Verdict, Waiting

LEMMA StepLockInv ==
  ASSUME Prompt, LockInv, TypeOK', ~Contended, ~Contended', [Next]_vars
  PROVE  LockInv'
<1> USE DEF LockInv, TypeOK, PCs, Gone, OneInRegion, DirBacksRegion, FileOfHolder,
            FreshWhileHeld, AgedIsOld, Region, Holding, Verdict, Waiting, Goto,
            Partial, Mine
<1>1. CASE UNCHANGED vars
  BY <1>1 DEF vars
<1>2. CASE Elapse
  BY <1>2 DEF Elapse
<1>3. ASSUME NEW p \in Processes, Start(p)
      PROVE  LockInv'
  BY <1>3 DEF Start
<1>4. ASSUME NEW p \in Processes, Crash(p)
      PROVE  LockInv'
  BY <1>4 DEF Crash
<1>5. ASSUME NEW p \in Processes, Reuse(p)
      PROVE  LockInv'
  BY <1>5 DEF Reuse
<1>6. ASSUME NEW p \in Processes, Step(p)
      PROVE  LockInv'
  <2>1. CASE MkDir(p)
    BY <1>6, <2>1 DEF MkDir
  <2>2. CASE CreateOwner(p)
    BY <1>6, <2>2 DEF CreateOwner
  <2>3. CASE CreateOwnerExists(p) \/ CreateOwnerMissing(p)
    BY <1>6, <2>3 DEF CreateOwnerExists, CreateOwnerMissing
  <2>4. CASE WriteOwner(p)
    BY <1>6, <2>4 DEF WriteOwner, WriteRecord
  <2>5. CASE WriteOwnerFails(p)
    BY <1>6, <2>5 DEF WriteOwnerFails, WriteRecord
  <2>6. CASE AbortUnlink(p)
    BY <1>6, <2>6 DEF AbortUnlink
  <2>7. CASE AbortRmdir(p)
    BY <1>6, <2>7 DEF AbortRmdir
  <2>8. CASE Timeout(p) \/ Poll(p)
    BY <1>6, <2>8 DEF Timeout, Poll
  <2>9. CASE RecoverStat(p)
    BY <1>6, <2>9 DEF RecoverStat
  <2>10. CASE RecoverJudge(p)
    <3>1. ASSUME NEW q \in Processes, pc[q] \in Region,
                 Stale(p, ReadOwner)
          PROVE  FALSE
      <4>1. q # p /\ pc[q] \in Holding
        BY <2>10, <3>1 DEF RecoverJudge, Contended
      <4>2. ~aged[p]
        BY <2>10, <4>1 DEF RecoverJudge
      <4>3. ReadOwner # NoFile /\ pc[ReadOwner.proc] = "dead"
        BY <3>1, <4>2 DEF Stale
      <4>4. file # NoFile /\ pc[file.proc] = "dead"
        BY <4>3 DEF ReadOwner
      <4> QED BY <4>1, <4>4
    <3>2. CASE Stale(p, ReadOwner)
      <4>1. \A q \in Processes : pc[q] \notin Region
        BY <3>1, <3>2
      <4>2. dir # "none"
        <5>1. CASE ReadOwner = NoFile
          BY <2>10, <3>2, <5>1 DEF Stale, RecoverJudge
        <5>2. CASE ReadOwner # NoFile
          BY <5>2 DEF ReadOwner
        <5> QED BY <5>1, <5>2
      <4>3. /\ pc' \in {[pc EXCEPT ![p] = "unlink"], [pc EXCEPT ![p] = "reread"]}
            /\ UNCHANGED <<dir, file, issued, aged>>
        BY <2>10, <3>2 DEF RecoverJudge
      <4> QED BY <1>6, <4>1, <4>2, <4>3
    <3>3. CASE ~Stale(p, ReadOwner)
      BY <1>6, <2>10, <3>3 DEF RecoverJudge
    <3> QED BY <3>2, <3>3
  <2>11. CASE RecoverReread(p)
    BY <1>6, <2>11 DEF RecoverReread
  <2>12. CASE RecoverUnlink(p)
    BY <1>6, <2>12 DEF RecoverUnlink, Contended
  <2>13. CASE RecoverRmdir(p)
    BY <1>6, <2>13 DEF RecoverRmdir, Contended
  <2>14. CASE Finish(p)
    BY <1>6, <2>14 DEF Finish
  <2>15. CASE ReleaseRead(p)
    BY <1>6, <2>15 DEF ReleaseRead
  <2>16. CASE ReleaseUnlink(p)
    BY <1>6, <2>16 DEF ReleaseUnlink
  <2>17. CASE ReleaseRmdir(p)
    BY <1>6, <2>17 DEF ReleaseRmdir
  <2> QED BY <1>6, <2>1, <2>2, <2>3, <2>4, <2>5, <2>6, <2>7, <2>8, <2>9, <2>10,
             <2>11, <2>12, <2>13, <2>14, <2>15, <2>16, <2>17 DEF Step
<1> QED BY <1>1, <1>2, <1>3, <1>4, <1>5, <1>6 DEF Next

LEMMA LockInvHolds == ASSUME Prompt PROVE Spec /\ []~Contended => []LockInv
<1>1. Init => LockInv
  BY InitLockInv
<1>2. LockInv /\ TypeOK' /\ ~Contended /\ (~Contended)' /\ [Next]_vars => LockInv'
  BY StepLockInv
<1>3. Spec => []TypeOK
  BY TypeCorrect
<1> QED BY <1>1, <1>2, <1>3, PTL DEF Spec

(* withDirectoryLock serialises the operations of any number of processes on
   any hosts, through crashes at every step and reused pids, provided that
   processes are prompt and recoveries do not overlap. *)
THEOREM Exclusive == ASSUME Prompt PROVE Spec => ExclusiveUnlessContended
<1>1. LockInv => MutualExclusion
  BY DEF LockInv, OneInRegion, MutualExclusion, Region, Holding
<1> QED BY <1>1, LockInvHolds, PTL DEF ExclusiveUnlessContended

(* Under the same conditions a running operation's lock directory and its
   owner.json stay on disk: no recovery takes them away. *)
THEOREM Intact == ASSUME Prompt PROVE Spec => IntactUnlessContended
<1>1. LockInv => HolderOnDisk
  BY DEF LockInv, DirBacksRegion, FileOfHolder, HolderOnDisk, Region, Holding
<1> QED BY <1>1, LockInvHolds, PTL DEF IntactUnlessContended

=============================================================================
