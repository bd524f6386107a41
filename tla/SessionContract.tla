-------------------------- MODULE SessionContract --------------------------
(***************************************************************************)
(* What the session lifecycle (cua-driver-core/src/session.rs) promises to *)
(* the code around it, with each operation as one step: an id is live, or  *)
(* ended, on behalf of one transport; the transport that held it may       *)
(* resume it; a transport whose connection is gone opens nothing more, and *)
(* what it holds ends. SessionLifecycle implements this specification      *)
(* (SessionRefinement), SessionMirror is built on it.                      *)
(***************************************************************************)
CONSTANTS Sessions, Owners, Leased, Nil

VARIABLES
    status,   \* "unused", "live" or "ended"
    holder,   \* the transport of the id's episodes, or Nil before the first
    open      \* is the connection of the transport still there?

cvars == <<status, holder, open>>

Init ==
    /\ status = [s \in Sessions |-> "unused"]
    /\ holder = [s \in Sessions |-> Nil]
    /\ open = [o \in Owners |-> TRUE]

\* The first call, or start_session, that names the id.
Open(s, o) ==
    /\ open[o] /\ status[s] = "unused"
    /\ status' = [status EXCEPT ![s] = "live"]
    /\ holder' = [holder EXCEPT ![s] = o]
    /\ UNCHANGED open

\* end_session, a closed connection, the idle sweep or revoke-all.
End(s) ==
    /\ status[s] = "live"
    /\ status' = [status EXCEPT ![s] = "ended"]
    /\ UNCHANGED <<holder, open>>

\* start_session by the transport the ended id belongs to.
Resume(s, o) ==
    /\ open[o] /\ status[s] = "ended" /\ holder[s] = o
    /\ status' = [status EXCEPT ![s] = "live"]
    /\ UNCHANGED <<holder, open>>

\* TransportOwner::close.
Close(o) ==
    /\ o \in Leased /\ open[o]
    /\ open' = [open EXCEPT ![o] = FALSE]
    /\ UNCHANGED <<status, holder>>

Next ==
    \/ \E s \in Sessions :
        \/ End(s)
        \/ \E o \in Owners : Open(s, o) \/ Resume(s, o)
    \/ \E o \in Owners : Close(o)

Spec == Init /\ [][Next]_cvars

\* What a gone connection holds does end; nothing else has to.
EndOrphan(s) == End(s) /\ \E o \in Owners : holder[s] = o /\ ~open[o]

FairSpec == Spec /\ \A s \in Sessions : WF_cvars(EndOrphan(s))
=============================================================================
