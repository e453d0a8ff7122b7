----------------------------- MODULE Membership -----------------------------
(***************************************************************************)
(* What enrollment promises, without files, locks or processes             *)
(* (docs/workstreams.md, "Enrollment" and "Membership moves"): a name is   *)
(* given to one workstream for good, and a session's memberships form a    *)
(* log that only grows, by registered workstreams, never the current one.  *)
(***************************************************************************)
EXTENDS Sequences, SequencesExt

CONSTANTS Sessions, Names, Ids, Unscoped

VARIABLES
    workstreams,    \* the registered workstreams: identity and name
    log             \* the memberships of each session

vars == <<workstreams, log>>

(* A session may hold a record from before there were workstreams. *)
Init ==
    /\ workstreams = {}
    /\ log \in [Sessions -> {<<>>, <<Unscoped>>}]

Register(id, n) ==
    /\ \A w \in workstreams : w.id # id /\ w.name # n
    /\ workstreams' = workstreams \union {[id |-> id, name |-> n]}
    /\ UNCHANGED log

Move(s, id) ==
    /\ \E w \in workstreams : w.id = id
    /\ log[s] # <<>> => Last(log[s]) # id
    /\ log' = [log EXCEPT ![s] = Append(@, id)]
    /\ UNCHANGED workstreams

Next ==
    \/ \E id \in Ids, n \in Names : Register(id, n)
    \/ \E s \in Sessions, id \in Ids : Move(s, id)

Spec == Init /\ [][Next]_vars

=============================================================================
