-------------------------- MODULE MCDirectoryLock --------------------------
(* Instances of DirectoryLock for TLC. *)
EXTENDS DirectoryLock

CONSTANTS p1, p2, p3, h1, h2

OneHost == [p \in Processes |-> h1]

(* p1 and p2 share a host, p3 runs on another one. *)
TwoHosts == [p \in Processes |-> IF p = p3 THEN h2 ELSE h1]

=============================================================================
