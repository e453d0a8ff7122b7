--------------------------- MODULE DirectoryLock ---------------------------
(***************************************************************************)
(* The cross-process lock of the store, src/output/directory-lock.ts.      *)
(*                                                                         *)
(* The lock of a resource is the directory <resource>.lock; its holder is  *)
(* named by the file owner.json inside it (pid, host, random token).  A    *)
(* process that finds the directory tries to recover it: an owner that is  *)
(* dead on this host is removed at once, an ownerless directory or one of  *)
(* another host once its mtime is staleAfterMs old.  Every filesystem call *)
(* of the code is one step here, so the steps of all processes interleave  *)
(* as the kernel lets them; a process may die between any two of them.     *)
(***************************************************************************)
EXTENDS Naturals

CONSTANTS
    Processes,      \* process identifiers (pid on its host)
    Host,           \* the host each process runs on
    MaxAcquire,     \* bound: acquisitions one process starts
    Prompt,         \* no process spends staleAfterMs inside the protocol
    PidReuse,       \* a dead process's pid may be given to another program
    NoFile          \* there is no owner.json

ASSUME LockAssumption ==
    /\ MaxAcquire \in Nat
    /\ Prompt \in BOOLEAN
    /\ PidReuse \in BOOLEAN
    /\ NoFile \notin [proc : Processes, n : Nat, done : BOOLEAN]

VARIABLES
    pc,     \* where each process stands in withDirectoryLock
    dir,    \* the lock directory: "none", or "fresh" / "old" by its mtime
    file,   \* owner.json: NoFile, or whose it is and whether fully written
    issued, \* the number of tokens each process has written so far
    aged,   \* the mtime a recovering process read is staleAfterMs old
    seen,   \* the owner a recovering process read (NoFile if none)
    retry   \* an aborted creation goes on to recovery (EEXIST)

vars == <<pc, dir, file, issued, aged, seen, retry>>

(* Between mkdir and the rmdir that undoes it. *)
Holding == {"open", "write", "abortUnlink", "abortRmdir",
            "cs", "relRead", "relUnlink", "relRmdir"}

(* A recovering process that found the lock stale and goes on to remove it. *)
Verdict == {"reread", "unlink", "rmdir"}

Waiting == {"mkdir", "stat", "judge", "wait"}

(* What has died, and whose pid is taken. *)
Gone == {"dead", "reused"}

PCs == {"idle"} \union Gone \union Holding \union Verdict \union Waiting

Owners == [proc : Processes, n : Nat, done : BOOLEAN]

TypeOK ==
    /\ pc \in [Processes -> PCs]
    /\ dir \in {"none", "fresh", "old"}
    /\ file \in Owners \union {NoFile}
    /\ issued \in [Processes -> Nat]
    /\ aged \in [Processes -> BOOLEAN]
    /\ seen \in [Processes -> Owners \union {NoFile}]
    /\ retry \in [Processes -> BOOLEAN]
    /\ file # NoFile => dir # "none" /\ file.n <= issued[file.proc]

Init ==
    /\ pc = [p \in Processes |-> "idle"]
    /\ dir = "none"
    /\ file = NoFile
    /\ issued = [p \in Processes |-> 0]
    /\ aged = [p \in Processes |-> FALSE]
    /\ seen = [p \in Processes |-> NoFile]
    /\ retry = [p \in Processes |-> FALSE]

Goto(p, l) == pc' = [pc EXCEPT ![p] = l]

Mine(p) == [proc |-> p, n |-> issued[p], done |-> TRUE]

(* readLockOwner: a partial owner.json does not parse and reads as none. *)
ReadOwner == IF file # NoFile /\ file.done THEN file ELSE NoFile

-----------------------------------------------------------------------------
(* acquireDirectoryLock *)

Start(p) ==
    /\ pc[p] = "idle"
    /\ issued[p] < MaxAcquire
    /\ Goto(p, "mkdir")
    /\ UNCHANGED <<dir, file, issued, aged, seen, retry>>

(* Mutant: mkdir is recursive and does not report EEXIST. *)
MkDirRecursive(p) ==
    /\ pc[p] = "mkdir"
    /\ dir' = IF dir = "none" THEN "fresh" ELSE dir
    /\ Goto(p, "open")
    /\ UNCHANGED <<file, issued, aged, seen, retry>>

MkDir(p) ==
    /\ pc[p] = "mkdir"
    /\ IF dir = "none"
       THEN dir' = "fresh" /\ Goto(p, "open")
       ELSE UNCHANGED dir /\ Goto(p, "stat")
    /\ UNCHANGED <<file, issued, aged, seen, retry>>

(* verifyDirectory, then open(O_CREAT | O_EXCL): a new token in a new file. *)
CreateOwner(p) ==
    /\ pc[p] = "open"
    /\ dir # "none" /\ file = NoFile
    /\ issued' = [issued EXCEPT ![p] = @ + 1]
    /\ file' = [proc |-> p, n |-> issued[p] + 1, done |-> FALSE]
    /\ dir' = "fresh"
    /\ Goto(p, "write")
    /\ UNCHANGED <<aged, seen, retry>>

(* Another process wrote owner.json meanwhile: EEXIST, which the outer
   catch takes for contention once the inner one has cleaned up. *)
CreateOwnerExists(p) ==
    /\ pc[p] = "open"
    /\ file # NoFile
    /\ retry' = [retry EXCEPT ![p] = TRUE]
    /\ Goto(p, "abortUnlink")
    /\ UNCHANGED <<dir, file, issued, aged, seen>>

(* The directory is gone: verifyDirectory reports it and nothing is cleaned
   up, or it went after that and open fails with ENOENT. *)
CreateOwnerMissing(p) ==
    /\ pc[p] = "open"
    /\ dir = "none"
    /\ retry' = [retry EXCEPT ![p] = FALSE]
    /\ Goto(p, "idle") \/ Goto(p, "abortUnlink")
    /\ UNCHANGED <<dir, file, issued, aged, seen>>

(* The record is written through the open handle, so it succeeds even when
   the file has been unlinked; then nothing on disk says so. *)
WriteRecord(p) ==
    file' = IF file = [proc |-> p, n |-> issued[p], done |-> FALSE]
            THEN Mine(p) ELSE file

WriteOwner(p) ==
    /\ pc[p] = "write"
    /\ WriteRecord(p)
    /\ Goto(p, "cs")
    /\ UNCHANGED <<dir, issued, aged, seen, retry>>

(* The write fails, or the sync or close after it. *)
WriteOwnerFails(p) ==
    /\ pc[p] = "write"
    /\ retry' = [retry EXCEPT ![p] = FALSE]
    /\ UNCHANGED file \/ WriteRecord(p)
    /\ Goto(p, "abortUnlink")
    /\ UNCHANGED <<dir, issued, aged, seen>>

(* The inner catch: unlink and rmdir by path, errors ignored. *)
AbortUnlink(p) ==
    /\ pc[p] = "abortUnlink"
    /\ file' = NoFile
    /\ dir' = IF file # NoFile THEN "fresh" ELSE dir
    /\ Goto(p, "abortRmdir")
    /\ UNCHANGED <<issued, aged, seen, retry>>

AbortRmdir(p) ==
    /\ pc[p] = "abortRmdir"
    /\ dir' = IF file = NoFile THEN "none" ELSE dir
    /\ Goto(p, IF retry[p] THEN "stat" ELSE "idle")
    /\ UNCHANGED <<file, issued, aged, seen, retry>>

(* After a recovery that removed nothing: give up at waitTimeoutMs ... *)
Timeout(p) ==
    /\ pc[p] = "wait"
    /\ Goto(p, "idle")
    /\ UNCHANGED <<dir, file, issued, aged, seen, retry>>

(* ... or sleep pollIntervalMs and try again. *)
Poll(p) ==
    /\ pc[p] = "wait"
    /\ Goto(p, "mkdir")
    /\ UNCHANGED <<dir, file, issued, aged, seen, retry>>

-----------------------------------------------------------------------------
(* recoverStaleDirectoryLock *)

RecoverStat(p) ==
    /\ pc[p] = "stat"
    /\ aged' = [aged EXCEPT ![p] = (dir = "old")]
    /\ Goto(p, IF dir = "none" THEN "mkdir" ELSE "judge")
    /\ UNCHANGED <<dir, file, issued, seen, retry>>

(* Mutant: the pid is looked up on this host wherever its process runs. *)
StaleAnyHost(p, owner) ==
    IF owner = NoFile THEN aged[p]
    ELSE Host[owner.proc] # Host[p] \/ pc[owner.proc] = "dead"

(* Mutant: a directory without an owner is never stale. *)
StaleOwnedOnly(p, owner) ==
    /\ owner # NoFile
    /\ IF Host[owner.proc] = Host[p] THEN pc[owner.proc] = "dead" ELSE aged[p]

(* An owner of this host is judged by its process alone, everything else by
   the mtime read in RecoverStat. *)
Stale(p, owner) ==
    IF owner # NoFile /\ Host[owner.proc] = Host[p]
    THEN pc[owner.proc] = "dead"
    ELSE aged[p]

RecoverJudge(p) ==
    /\ pc[p] = "judge"
    /\ seen' = [seen EXCEPT ![p] = ReadOwner]
    /\ Goto(p, IF ~Stale(p, ReadOwner) THEN "wait"
               ELSE IF ReadOwner = NoFile THEN "unlink"
               ELSE "reread")
    /\ UNCHANGED <<dir, file, issued, aged, retry>>

RecoverReread(p) ==
    /\ pc[p] = "reread"
    /\ Goto(p, IF ReadOwner = seen[p] THEN "unlink" ELSE "mkdir")
    /\ UNCHANGED <<dir, file, issued, aged, seen, retry>>

(* unlink and rmdir name paths: they remove whatever is there by now. *)
RecoverUnlink(p) ==
    /\ pc[p] = "unlink"
    /\ file' = NoFile
    /\ dir' = IF file # NoFile THEN "fresh" ELSE dir
    /\ Goto(p, "rmdir")
    /\ UNCHANGED <<issued, aged, seen, retry>>

(* Mutant: the directory is taken to be empty (ENOTEMPTY is ignored). *)
RecoverRmdirForced(p) ==
    /\ pc[p] = "rmdir"
    /\ dir' = "none" /\ Goto(p, "mkdir")
    /\ UNCHANGED <<file, issued, aged, seen, retry>>

RecoverRmdir(p) ==
    /\ pc[p] = "rmdir"
    /\ IF file = NoFile
       THEN dir' = "none" /\ Goto(p, "mkdir")
       ELSE UNCHANGED dir /\ Goto(p, "wait")
    /\ UNCHANGED <<file, issued, aged, seen, retry>>

-----------------------------------------------------------------------------
(* withDirectoryLock after acquisition; releaseDirectoryLock *)

(* The protected operation ends, with a result or an error. *)
Finish(p) ==
    /\ pc[p] = "cs"
    /\ Goto(p, "relRead")
    /\ UNCHANGED <<dir, file, issued, aged, seen, retry>>

ReleaseRead(p) ==
    /\ pc[p] = "relRead"
    /\ Goto(p, IF ReadOwner = Mine(p) THEN "relUnlink" ELSE "idle")
    /\ UNCHANGED <<dir, file, issued, aged, seen, retry>>

(* ENOENT ends the release with an error, and so does a failing rmdir. *)
ReleaseUnlink(p) ==
    /\ pc[p] = "relUnlink"
    /\ file' = NoFile
    /\ dir' = IF file # NoFile THEN "fresh" ELSE dir
    /\ Goto(p, IF file # NoFile THEN "relRmdir" ELSE "idle")
    /\ UNCHANGED <<issued, aged, seen, retry>>

ReleaseRmdir(p) ==
    /\ pc[p] = "relRmdir"
    /\ dir' = IF file = NoFile THEN "none" ELSE dir
    /\ Goto(p, "idle")
    /\ UNCHANGED <<file, issued, aged, seen, retry>>

-----------------------------------------------------------------------------
(* The environment *)

Crash(p) ==
    /\ pc[p] \notin Gone
    /\ Goto(p, "dead")
    /\ UNCHANGED <<dir, file, issued, aged, seen, retry>>

(* Another program gets the pid of a dead process: it will never call the lock
   and yet looks like its owner, alive. *)
Reuse(p) ==
    /\ PidReuse
    /\ pc[p] = "dead"
    /\ Goto(p, "reused")
    /\ UNCHANGED <<dir, file, issued, aged, seen, retry>>

(* staleAfterMs pass: what was fresh, on disk or in a process that has read
   the mtime, is old now. *)
Elapse ==
    /\ Prompt => \A p \in Processes : pc[p] \notin Holding \union Verdict
    /\ dir # "none"
    /\ dir' = "old"
    /\ aged' = [p \in Processes |-> pc[p] = "judge" \/ aged[p]]
    /\ UNCHANGED <<pc, file, issued, seen, retry>>

-----------------------------------------------------------------------------
(* What a live process does by itself once it has called the lock. *)
Step(p) ==
    \/ MkDir(p)
    \/ CreateOwner(p)
    \/ CreateOwnerExists(p)
    \/ CreateOwnerMissing(p)
    \/ WriteOwner(p)
    \/ WriteOwnerFails(p)
    \/ AbortUnlink(p)
    \/ AbortRmdir(p)
    \/ Timeout(p)
    \/ Poll(p)
    \/ RecoverStat(p)
    \/ RecoverJudge(p)
    \/ RecoverReread(p)
    \/ RecoverUnlink(p)
    \/ RecoverRmdir(p)
    \/ Finish(p)
    \/ ReleaseRead(p)
    \/ ReleaseUnlink(p)
    \/ ReleaseRmdir(p)

Next ==
    \/ \E p \in Processes : Start(p) \/ Step(p) \/ Crash(p) \/ Reuse(p)
    \/ Elapse

Spec == Init /\ [][Next]_vars

(* A process that runs keeps running, and time passes. *)
FairSpec ==
    /\ Spec
    /\ \A p \in Processes : WF_vars(Step(p))
    /\ WF_vars(Elapse)

-----------------------------------------------------------------------------
(* Two processes are inside recoverStaleDirectoryLock together, past its
   lstat, and one of them has found the lock stale. *)
Contended ==
    \E p, q \in Processes :
        /\ p # q
        /\ pc[p] \in Verdict
        /\ pc[q] \in Verdict \union {"judge"}

(* "Serialize an asynchronous transaction across processes": at most one
   process runs its protected operation. *)
MutualExclusion ==
    \A p, q \in Processes : pc[p] = "cs" /\ pc[q] = "cs" => p = q

(* In particular, of two processes that found an owner's record and removed its
   lock after a second look, at most one goes on to run its operation: the
   re-read of the owner is there to keep them apart. *)
ExclusiveDespiteReread ==
    \A p, q \in Processes :
        pc[p] = "cs" /\ pc[q] = "cs" /\ seen[p] # NoFile /\ seen[q] # NoFile => p = q

(* While a process runs its operation owner.json names that acquisition, so
   that others see the lock as held. *)
HolderOnDisk ==
    \A p \in Processes : pc[p] = "cs" => dir # "none" /\ file = Mine(p)

(* Prompt processes exclude each other through any crashes and recoveries,
   as long as no two of them recover the lock at the same time. *)
ExclusiveUnlessContended == []~Contended => []MutualExclusion

(* ... and the lock of a running operation is never taken off the disk. *)
IntactUnlessContended == []~Contended => []HolderOnDisk

(* A complete lock whose owner died on the same host does not outlast the
   recovery of a process that waits for it ("recovered immediately"). *)
DeadOwnerRecovered ==
    \A p, q \in Processes :
        (/\ file # NoFile /\ file.done /\ file.proc = q
         /\ pc[q] = "dead" /\ Host[p] = Host[q] /\ pc[p] = "stat")
        ~> (file = NoFile \/ file.proc # q \/ pc[p] \in Gone \/ pc[q] # "dead")

(* A lock directory without a readable owner, as a creator that dies before
   its owner.json is whole leaves it, does not outlast a process that keeps
   asking for the lock. *)
OwnerlessRecovered ==
    \A p \in Processes :
        ~ <>[](/\ dir # "none" /\ ReadOwner = NoFile
               /\ pc[p] \in Waiting \union Verdict)

(* No lock stays taken by a process that is gone. *)
AbandonedRecovered == DeadOwnerRecovered /\ OwnerlessRecovered

=============================================================================
