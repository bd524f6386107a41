------------------------- MODULE SessionRefinement -------------------------
(***************************************************************************)
(* The lifecycle, with its six mutexes, deferred ends, bulk ends and       *)
(* cleanup attempts, implements SessionContract. An id is live while it    *)
(* has a record and ended while it has a tombstone; its holder is the      *)
(* owner that one of the two names.                                        *)
(***************************************************************************)
EXTENDS SessionLifecycle

StatusOf(s) == IF owner[s] # Nil THEN "live"
               ELSE IF tombstone[s] # Nil THEN "ended" ELSE "unused"
HolderOf(s) == IF owner[s] # Nil THEN owner[s] ELSE tombstone[s]

C == INSTANCE SessionContract WITH
        status <- [s \in Sessions |-> StatusOf(s)],
        holder <- [s \in Sessions |-> HolderOf(s)],
        open <- live

\* Every behaviour of the lifecycle is one of the contract: admission, revival,
\* end and closing of a connection take effect at one instant each, whatever the
\* critical sections around it do.
ImplementsContract == C!Spec

\* Under the lifecycle's fairness, it also keeps the contract's liveness: the
\* sessions of a connection that is gone end, although each end may be deferred
\* by a call in flight and carried out by that call's guard.
ImplementsFairContract == C!FairSpec
=============================================================================
