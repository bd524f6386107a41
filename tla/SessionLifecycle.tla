-------------------------- MODULE SessionLifecycle --------------------------
(***************************************************************************)
(* The lifecycle of Cua Driver sessions (cua-driver-core/src/session.rs),  *)
(* with the tools that drive it (session_tools.rs), the part of the        *)
(* canonical dispatch that admits a call (tool.rs), the capture policy an  *)
(* episode carries (capture_scope.rs) and revoke-all (sdk_adapter.rs).     *)
(*                                                                         *)
(* The state is a handful of process-global maps, each behind a mutex of   *)
(* its own. A step is one critical section of one thread; what a thread    *)
(* learnt in a critical section and carries to the next one is in its      *)
(* local variables, so another thread may act in between.                  *)
(*                                                                         *)
(* A definition whose name has an underscore (LeftAfter_Wrapping) is a     *)
(* variant of the one that follows it, with a mistake the properties find. *)
(*                                                                         *)
(* Not modelled: the telemetry observer and cursor readers, the wording of *)
(* refusals, and the "default" and empty ids, which is_trackable keeps out *)
(* of every map. Time is whether an activity entry is older than the TTL.  *)
(***************************************************************************)
EXTENDS Integers, FiniteSets

CONSTANTS
    Sessions,    \* runtime-private session ids
    Owners,      \* transport identities
    Leased,      \* owners whose calls carry a TransportOwner capability
    SelfOwned,   \* pairs <<s, o>>: the id s is the transport id of o itself
    Callers,     \* threads that serve transports
    Sweeper,     \* the maintenance thread that evicts idle sessions
    Operator,    \* the thread that serves revoke-all
    Hooks,       \* ids of the registered session-end hooks, run in order
    Policies,    \* capture policies that start_session calls name
    Serialized,  \* do start, end and revoke take SdkAdapter.session_lifecycle?
    Nil,         \* no owner, no tombstone, no session
    Unowned      \* the tombstone of an episode whose owner is unknown

Threads == Callers \cup {Sweeper, Operator}

ASSUME OwnersAssumption ==
    /\ Nil \notin Owners \cup Sessions
    /\ Unowned \notin Owners \cup {Nil}
    /\ Leased \subseteq Owners
    /\ SelfOwned \subseteq Sessions \X Owners
ASSUME ThreadsAssumption ==
    /\ Sweeper \notin Callers /\ Operator \notin Callers /\ Sweeper # Operator
    /\ IsFiniteSet(Callers)
ASSUME DataAssumption ==
    /\ Hooks \subseteq Nat /\ IsFiniteSet(Hooks)
    /\ Policies \subseteq {"auto", "window", "desktop"}
    /\ Serialized \in BOOLEAN

VARIABLES
    tombstone,   \* ENDED_SESSIONS: the owner of the ended episode, or Nil
    owner,       \* LIFECYCLE_RECORDS: owner_transport of the live record, or Nil
    inFlight,    \* ... its in_flight
    pendingEnd,  \* ... whether its pending_end is set
    activity,    \* SESSION_ACTIVITY: "none", or an entry younger or older than the TTL
    cleanup,     \* SESSION_CLEANUP_PROGRESS: "none", or an entry not running or running
    completed,   \* ... the hooks that have succeeded
    scope,       \* SESSION_SCOPES: the policy; "unlocked" is auto after escalation
    live,        \* TransportOwner.live of each owner
    suspended,   \* SUSPENDED_RUNTIME_SCOPES holds this runtime
    pc, call,    \* where a thread is, and in which handler
    sess, tran,  \* its session_id and owner_transport
    want,        \* the policy its start_session names, or "none"
    batch,       \* ids it has still to end
    work, won    \* the hooks of its cleanup attempt still to call; the successes

records == <<owner, inFlight, pendingEnd>>
progress == <<cleanup, completed>>
shared == <<tombstone, records, activity, progress, scope, live, suspended>>
local == <<call, sess, tran, want, batch, work, won>>
vars == <<shared, pc, local>>

ScopeOf == {"none", "auto", "window", "desktop", "unlocked"}
Calls == {"none", "tool", "start", "end", "close", "sweep", "revoke"}
PCs == {"idle", "admitting", "begin_touch", "guarded", "escalating", "escalated",
        "start_check", "revive", "start_touch", "bind",
        "match_tombstone", "enumerate", "sweep", "revoke", "ending",
        "mark", "clear", "init", "retry", "hooks"}
\* Where a thread works on no session, or on a list of them.
Sessionless == {"idle", "enumerate", "sweep", "revoke", "ending"}

TypeOK ==
    /\ tombstone \in [Sessions -> Owners \cup {Unowned, Nil}]
    /\ owner \in [Sessions -> Owners \cup {Nil}]
    /\ inFlight \in [Sessions -> Nat]
    /\ pendingEnd \in [Sessions -> BOOLEAN]
    /\ activity \in [Sessions -> {"none", "fresh", "stale"}]
    /\ cleanup \in [Sessions -> {"none", "waiting", "running"}]
    /\ completed \in [Sessions -> SUBSET Hooks]
    /\ scope \in [Sessions -> ScopeOf]
    /\ live \in [Owners -> BOOLEAN]
    /\ suspended \in BOOLEAN
    /\ pc \in [Threads -> PCs]
    /\ call \in [Threads -> Calls]
    /\ sess \in [Threads -> Sessions \cup {Nil}]
    /\ tran \in [Threads -> Owners \cup {Nil}]
    /\ want \in [Threads -> Policies \cup {"none"}]
    /\ batch \in [Threads -> SUBSET Sessions]
    /\ work \in [Threads -> SUBSET Hooks]
    /\ won \in [Threads -> SUBSET Hooks]
    /\ \A t \in Threads : pc[t] \notin Sessionless => sess[t] \in Sessions

Init ==
    /\ tombstone = [s \in Sessions |-> Nil]
    /\ owner = [s \in Sessions |-> Nil]
    /\ inFlight = [s \in Sessions |-> 0]
    /\ pendingEnd = [s \in Sessions |-> FALSE]
    /\ activity = [s \in Sessions |-> "none"]
    /\ cleanup = [s \in Sessions |-> "none"]
    /\ completed = [s \in Sessions |-> {}]
    /\ scope = [s \in Sessions |-> "none"]
    /\ live = [o \in Owners |-> TRUE]
    /\ suspended = FALSE
    /\ pc = [t \in Threads |-> "idle"]
    /\ call = [t \in Threads |-> "none"]
    /\ sess = [t \in Threads |-> Nil]
    /\ tran = [t \in Threads |-> Nil]
    /\ want = [t \in Threads |-> "none"]
    /\ batch = [t \in Threads |-> {}]
    /\ work = [t \in Threads |-> {}]
    /\ won = [t \in Threads |-> {}]

-----------------------------------------------------------------------------
(* Control of a thread.                                                    *)

Enter(t, handler, s, o, at) ==
    /\ pc[t] = "idle"
    /\ pc' = [pc EXCEPT ![t] = at]
    /\ call' = [call EXCEPT ![t] = handler]
    /\ sess' = [sess EXCEPT ![t] = s]
    /\ tran' = [tran EXCEPT ![t] = o]

Goto(t, at) == pc' = [pc EXCEPT ![t] = at] /\ UNCHANGED local

\* The handler returns: its locals are gone.
Return(t) ==
    /\ pc' = [pc EXCEPT ![t] = "idle"]
    /\ call' = [call EXCEPT ![t] = "none"]
    /\ sess' = [sess EXCEPT ![t] = Nil]
    /\ tran' = [tran EXCEPT ![t] = Nil]
    /\ want' = [want EXCEPT ![t] = "none"]
    /\ batch' = [batch EXCEPT ![t] = {}]
    /\ work' = [work EXCEPT ![t] = {}]
    /\ won' = [won EXCEPT ![t] = {}]

\* A bulk end goes on with the ids it has left, and returns after the last one.
EndRest(t, ids) ==
    IF ids = {} THEN Return(t)
    ELSE /\ pc' = [pc EXCEPT ![t] = "ending"]
         /\ batch' = [batch EXCEPT ![t] = ids]
         /\ sess' = [sess EXCEPT ![t] = Nil]
         /\ tran' = [tran EXCEPT ![t] = Nil]
         /\ work' = [work EXCEPT ![t] = {}]
         /\ won' = [won EXCEPT ![t] = {}]
         /\ UNCHANGED <<call, want>>

\* SdkAdapter holds session_lifecycle across start_session, end_session and
\* revoke_all_sessions.
LifecycleFree ==
    Serialized => \A t \in Threads : call[t] \notin {"start", "end", "revoke"}

\* Admission keeps the owner's live mutex until the activity entry is written.
LiveHeld(o) == \E t \in Threads : /\ pc[t] \in {"begin_touch", "start_touch"}
                                  /\ tran[t] = o
LiveFree(o) == o \in Leased => ~LiveHeld(o)
Closed(o) == o \in Leased /\ ~live[o]

\* The threads that hold a SessionDispatchGuard of session s, or are about to.
Guards(s) == {t \in Threads :
                /\ pc[t] \in {"begin_touch", "guarded", "escalating", "escalated"}
                /\ sess[t] = s}

-----------------------------------------------------------------------------
(* An ordinary, session-requiring tool call.                               *)

\* The early checks of the dispatch boundary. Consent, manifests and resource
\* adapters are awaited between this step and BeginDispatch; a call that one of
\* them refuses has changed nothing here and is left out.
CallTool(t, s, o) ==
    /\ ~suspended /\ ~Closed(o) /\ tombstone[s] = Nil
    /\ Enter(t, "tool", s, o, "admitting")
    /\ UNCHANGED <<shared, want, batch, work, won>>

DispatchRefused_NoTombstone(s, o) ==
    Closed(o) \/ owner[s] \notin {Nil, o} \/ pendingEnd[s]
DispatchRefused_NoLease(s, o) ==
    tombstone[s] # Nil \/ owner[s] \notin {Nil, o} \/ pendingEnd[s]
DispatchRefused(s, o) ==
    \/ Closed(o)
    \/ tombstone[s] # Nil
    \/ owner[s] \notin {Nil, o}
    \/ pendingEnd[s]

RefuseDispatch(t) ==
    /\ pc[t] = "admitting"
    /\ DispatchRefused(sess[t], tran[t])
    /\ Return(t)
    /\ UNCHANGED shared

\* The tombstone check and the record's insertion are one critical section.
BeginDispatch(t) ==
    LET s == sess[t] IN
    /\ pc[t] = "admitting"
    /\ LiveFree(tran[t])
    /\ ~DispatchRefused(s, tran[t])
    /\ owner' = [owner EXCEPT ![s] = tran[t]]
    /\ inFlight' = [inFlight EXCEPT ![s] = @ + 1]
    /\ Goto(t, "begin_touch")
    /\ UNCHANGED <<tombstone, pendingEnd, activity, progress, scope, live, suspended>>

\* The activity entry is written after the records are unlocked.
BeginTouch(t) ==
    /\ pc[t] = "begin_touch"
    /\ activity' = [activity EXCEPT ![sess[t]] = "fresh"]
    /\ Goto(t, "guarded")
    /\ UNCHANGED <<tombstone, records, progress, scope, live, suspended>>

\* The tool under the guard is escalate_session: it first looks the session up...
EscalateLookup(t) ==
    /\ pc[t] = "guarded"
    /\ owner[sess[t]] = tran[t]
    /\ Goto(t, "escalating")
    /\ UNCHANGED shared

\* ... then checks the tombstone and unlocks, both under the scope lock.
Escalate(t) ==
    LET s == sess[t] IN
    /\ pc[t] = "escalating"
    /\ scope' = IF tombstone[s] = Nil /\ scope[s] = "auto"
                THEN [scope EXCEPT ![s] = "unlocked"] ELSE scope
    /\ Goto(t, "escalated")
    /\ UNCHANGED <<tombstone, records, activity, progress, live, suspended>>

LeftAfter_Wrapping(n) == n - 1
LeftAfter(n) == IF n = 0 THEN 0 ELSE n - 1
TakesEnd_BeforeDecrement(s, left) == inFlight[s] = 0 /\ pendingEnd[s]
TakesEnd(s, left) == left = 0 /\ pendingEnd[s]

\* Dropping the guard: the last one takes a pending end and carries it out.
DropGuard(t) ==
    LET s == sess[t]
        left == LeftAfter(inFlight[s])
        takes == TakesEnd(s, left)
    IN /\ pc[t] \in {"guarded", "escalated"}
       /\ IF owner[s] = Nil
          THEN UNCHANGED <<records, activity>>
          ELSE /\ inFlight' = [inFlight EXCEPT ![s] = left]
               /\ activity' = [activity EXCEPT ![s] = "fresh"]
               /\ pendingEnd' = [pendingEnd EXCEPT ![s] = @ /\ ~takes]
               /\ UNCHANGED owner
       /\ IF takes THEN Goto(t, "mark") ELSE Return(t)
       /\ UNCHANGED <<tombstone, progress, scope, live, suspended>>

-----------------------------------------------------------------------------
(* Ending sessions. Every bulk end lists its ids first and then ends them  *)
(* one by one; end_session ends a list of one.                             *)

\* end_session: is the caller the owner of the live record ...
EndTool(t, s, o) ==
    /\ ~suspended /\ ~Closed(o) /\ LifecycleFree
    /\ IF owner[s] = o
       THEN /\ Enter(t, "end", Nil, Nil, "ending")
            /\ batch' = [batch EXCEPT ![t] = {s}]
       ELSE /\ Enter(t, "end", s, o, "match_tombstone")
            /\ UNCHANGED batch
    /\ UNCHANGED <<shared, want, work, won>>

\* ... or, looked up after the records are unlocked, of the tombstone?
MatchTombstone(t) ==
    /\ pc[t] = "match_tombstone"
    /\ EndRest(t, IF tombstone[sess[t]] = tran[t] THEN {sess[t]} ELSE {})
    /\ UNCHANGED shared

\* A connection ends. A leased owner is revoked before its sessions are listed.
CloseTransport(t, o) ==
    /\ LiveFree(o) /\ ~Closed(o)
    /\ live' = IF o \in Leased THEN [live EXCEPT ![o] = FALSE] ELSE live
    /\ Enter(t, "close", Nil, o, "enumerate")
    /\ UNCHANGED <<tombstone, records, activity, progress, scope, suspended,
                   want, batch, work, won>>

EnumerateOwned(t) ==
    /\ pc[t] = "enumerate"
    /\ EndRest(t, {s \in Sessions : owner[s] = tran[t]})
    /\ UNCHANGED shared

\* The idle sweep reads the records first, then the activity entries.
SweepRecords ==
    /\ Enter(Sweeper, "sweep", Nil, Nil, "sweep")
    /\ batch' = [batch EXCEPT ![Sweeper] = {s \in Sessions : inFlight[s] = 0}]
    /\ UNCHANGED <<shared, want, work, won>>

SweepActivity ==
    /\ pc[Sweeper] = "sweep"
    /\ EndRest(Sweeper, {s \in batch[Sweeper] : activity[s] = "stale"})
    /\ UNCHANGED shared

\* revoke_all_sessions: latch the suspension, then end what has an activity entry.
RevokeAll ==
    /\ LifecycleFree
    /\ suspended' = TRUE
    /\ Enter(Operator, "revoke", Nil, Nil, "revoke")
    /\ UNCHANGED <<tombstone, records, activity, progress, scope, live,
                   want, batch, work, won>>

RevokeEnumerate ==
    /\ pc[Operator] = "revoke"
    /\ EndRest(Operator, {s \in Sessions : activity[s] # "none"})
    /\ UNCHANGED shared

\* The next id of the list: defer its end while a call is in flight.
DeferEnd_Forgotten(s) == pendingEnd' = [pendingEnd EXCEPT ![s] = @]
DeferEnd(s) == pendingEnd' = [pendingEnd EXCEPT ![s] = TRUE]

EndNext(t) ==
    /\ pc[t] = "ending"
    /\ \E s \in batch[t] :
        IF inFlight[s] > 0
        THEN DeferEnd(s) /\ EndRest(t, batch[t] \ {s})
        ELSE /\ pc' = [pc EXCEPT ![t] = "mark"]
             /\ sess' = [sess EXCEPT ![t] = s]
             /\ batch' = [batch EXCEPT ![t] = @ \ {s}]
             /\ UNCHANGED <<pendingEnd, call, tran, want, work, won>>
    /\ UNCHANGED <<tombstone, owner, inFlight, activity, progress, scope, live,
                   suspended>>

-----------------------------------------------------------------------------
(* finish_session_end and the cleanup attempts.                            *)

EpisodeOwner(s) == IF owner[s] = Nil THEN Unowned ELSE owner[s]

\* Remove the activity entry and the record, and leave a tombstone if none is
\* there. Only the first end of the episode sets the cleanup up.
MarkEnded(t) ==
    LET s == sess[t]
        first == tombstone[s] = Nil
    IN /\ pc[t] = "mark"
       /\ activity' = [activity EXCEPT ![s] = "none"]
       /\ owner' = [owner EXCEPT ![s] = Nil]
       /\ inFlight' = [inFlight EXCEPT ![s] = 0]
       /\ pendingEnd' = [pendingEnd EXCEPT ![s] = FALSE]
       /\ tombstone' = IF ~first THEN tombstone
                       ELSE [tombstone EXCEPT ![s] = EpisodeOwner(s)]
       /\ Goto(t, IF first THEN "clear" ELSE "retry")
       /\ UNCHANGED <<progress, scope, live, suspended>>

ClearScope(t) ==
    /\ pc[t] = "clear"
    /\ scope' = [scope EXCEPT ![sess[t]] = "none"]
    /\ Goto(t, "init")
    /\ UNCHANGED <<tombstone, records, activity, progress, live, suspended>>

InitCleanup(t) ==
    /\ pc[t] = "init"
    /\ cleanup' = [cleanup EXCEPT ![sess[t]] = "waiting"]
    /\ completed' = [completed EXCEPT ![sess[t]] = {}]
    /\ Goto(t, "retry")
    /\ UNCHANGED <<tombstone, records, activity, scope, live, suspended>>

\* What follows retry_session_cleanup: start_session goes on to the revival if
\* the cleanup is complete, an end goes on with its list.
AfterCleanup(t, complete) ==
    CASE call[t] # "start" -> EndRest(t, batch[t])
      [] call[t] = "start" /\ ~complete -> Return(t)
      [] call[t] = "start" /\ complete ->
            /\ pc' = [pc EXCEPT ![t] = "revive"]
            /\ work' = [work EXCEPT ![t] = {}]
            /\ won' = [won EXCEPT ![t] = {}]
            /\ UNCHANGED <<call, sess, tran, want, batch>>

\* No entry: nothing is left to clean up. A running entry: somebody is at it.
StartCleanup(t) ==
    LET s == sess[t] IN
    /\ pc[t] = "retry"
    /\ IF cleanup[s] = "waiting"
       THEN /\ cleanup' = [cleanup EXCEPT ![s] = "running"]
            /\ work' = [work EXCEPT ![t] = Hooks \ completed[s]]
            /\ won' = [won EXCEPT ![t] = {}]
            /\ pc' = [pc EXCEPT ![t] = "hooks"]
            /\ UNCHANGED <<call, sess, tran, want, batch>>
       ELSE AfterCleanup(t, cleanup[s] = "none") /\ UNCHANGED cleanup
    /\ UNCHANGED <<tombstone, records, activity, completed, scope, live, suspended>>

\* The next hook is called without any lock; it may fail or panic.
RunHook(t) ==
    /\ pc[t] = "hooks"
    /\ \E h \in work[t] :
        /\ \A k \in work[t] : h <= k
        /\ work' = [work EXCEPT ![t] = @ \ {h}]
        /\ \/ won' = [won EXCEPT ![t] = @ \cup {h}]
           \/ UNCHANGED won
    /\ UNCHANGED <<shared, pc, call, sess, tran, want, batch>>

Left_Running(done) == IF done = Hooks THEN "none" ELSE "running"
Left(done) == IF done = Hooks THEN "none" ELSE "waiting"

\* Every hook of the attempt has been called: note the successes, and forget the
\* entry once all hooks have succeeded.
RecordCleanup(t) ==
    LET s == sess[t]
        now == completed[s] \cup won[t]
    IN /\ pc[t] = "hooks" /\ work[t] = {}
       /\ IF cleanup[s] = "none"
          THEN AfterCleanup(t, TRUE) /\ UNCHANGED progress
          ELSE /\ AfterCleanup(t, now = Hooks)
               /\ cleanup' = [cleanup EXCEPT ![s] = Left(now)]
               /\ completed' = [completed EXCEPT ![s] =
                                IF now = Hooks THEN {} ELSE now]
       /\ UNCHANGED <<tombstone, records, activity, scope, live, suspended>>

-----------------------------------------------------------------------------
(* start_session: revive or activate, then bind the capture policy.        *)

PolicyOf(s) == IF scope[s] = "unlocked" THEN "auto" ELSE scope[s]
Conflicts(s, p) == p # "none" /\ scope[s] # "none" /\ PolicyOf(s) # p

StartTool(t, s, o, p) ==
    /\ ~suspended /\ ~Closed(o) /\ LifecycleFree
    /\ ~Conflicts(s, p)
    /\ Enter(t, "start", s, o, "start_check")
    /\ want' = [want EXCEPT ![t] = p]
    /\ UNCHANGED <<shared, batch, work, won>>

\* The tombstone of another transport, or one that has lost its owner.
Foreign(s, o) ==
    \/ tombstone[s] = Unowned /\ <<s, o>> \notin SelfOwned
    \/ tombstone[s] \notin {Unowned, Nil, o}

\* Ownership is checked before any cleanup hook runs on behalf of the caller.
StartCheck(t) ==
    LET s == sess[t] IN
    /\ pc[t] = "start_check"
    /\ IF Foreign(s, tran[t]) THEN Return(t)
       ELSE Goto(t, IF tombstone[s] = Nil THEN "revive" ELSE "retry")
    /\ UNCHANGED shared

ReviveRefused_NoRecheck(s, o) ==
    Closed(o) \/ (owner[s] # Nil /\ (owner[s] # o \/ pendingEnd[s]))
ReviveRefused(s, o) ==
    \/ Closed(o)
    \/ Foreign(s, o)
    \/ owner[s] # Nil /\ (owner[s] # o \/ pendingEnd[s])

RefuseRevive(t) ==
    /\ pc[t] = "revive"
    /\ ReviveRefused(sess[t], tran[t])
    /\ Return(t)
    /\ UNCHANGED shared

\* Removing the tombstone and binding the live record is one critical section.
Revive(t) ==
    LET s == sess[t] IN
    /\ pc[t] = "revive"
    /\ LiveFree(tran[t])
    /\ ~ReviveRefused(s, tran[t])
    /\ owner' = [owner EXCEPT ![s] = tran[t]]
    /\ tombstone' = [tombstone EXCEPT ![s] = Nil]
    /\ Goto(t, "start_touch")
    /\ UNCHANGED <<inFlight, pendingEnd, activity, progress, scope, live, suspended>>

StartTouch(t) ==
    /\ pc[t] = "start_touch"
    /\ activity' = [activity EXCEPT ![sess[t]] = "fresh"]
    /\ Goto(t, "bind")
    /\ UNCHANGED <<tombstone, records, progress, scope, live, suspended>>

Binds_NoTombstone(s, p) == p # "none" /\ scope[s] = "none"
Binds(s, p) == p # "none" /\ tombstone[s] = Nil /\ scope[s] = "none"

\* bind_session checks the tombstone under the scope lock. The revive hooks that
\* follow touch only platform state.
Bind(t) ==
    LET s == sess[t] IN
    /\ pc[t] = "bind"
    /\ scope' = IF Binds(s, want[t]) THEN [scope EXCEPT ![s] = want[t]] ELSE scope
    /\ Return(t)
    /\ UNCHANGED <<tombstone, records, activity, progress, live, suspended>>

-----------------------------------------------------------------------------
(* Time, heartbeats and the whole.                                         *)

\* touch_sessions_for_owner holds all three locks; it only renews entries.
Heartbeat(o) ==
    /\ ~Closed(o)
    /\ activity' = [s \in Sessions |->
                        IF owner[s] = o /\ ~pendingEnd[s] /\ tombstone[s] = Nil
                           /\ activity[s] # "none"
                        THEN "fresh" ELSE activity[s]]
    /\ UNCHANGED <<tombstone, records, progress, scope, live, suspended, pc, local>>

\* The TTL of an untouched session expires. A sweep measures every age against
\* the instant at which it began, so nothing expires between its two reads.
Expire(s) ==
    /\ pc[Sweeper] # "sweep"
    /\ activity[s] = "fresh"
    /\ activity' = [activity EXCEPT ![s] = "stale"]
    /\ UNCHANGED <<tombstone, records, progress, scope, live, suspended, pc, local>>

\* The steps a thread takes once it is inside a handler.
Proceed(t) ==
    \/ RefuseDispatch(t) \/ BeginDispatch(t) \/ BeginTouch(t)
    \/ Escalate(t) \/ DropGuard(t)
    \/ MatchTombstone(t) \/ EnumerateOwned(t) \/ EndNext(t)
    \/ MarkEnded(t) \/ ClearScope(t) \/ InitCleanup(t)
    \/ StartCleanup(t) \/ RunHook(t) \/ RecordCleanup(t)
    \/ StartCheck(t) \/ RefuseRevive(t) \/ Revive(t) \/ StartTouch(t) \/ Bind(t)

CallerEnters(t) ==
    \E o \in Owners :
        \/ CloseTransport(t, o)
        \/ \E s \in Sessions :
            \/ CallTool(t, s, o)
            \/ EndTool(t, s, o)
            \/ \E p \in Policies \cup {"none"} : StartTool(t, s, o, p)

Next ==
    \/ \E t \in Callers : CallerEnters(t)
    \/ \E t \in Threads : Proceed(t) \/ EscalateLookup(t)
    \/ SweepRecords \/ SweepActivity
    \/ RevokeAll \/ RevokeEnumerate
    \/ \E o \in Owners : Heartbeat(o)
    \/ \E s \in Sessions : Expire(s)

Spec == Init /\ [][Next]_vars

\* No mutex is held across a wait, a tool returns, and threads are scheduled.
Fairness ==
    /\ \A t \in Threads : WF_vars(Proceed(t))
    /\ WF_vars(SweepActivity) /\ WF_vars(RevokeEnumerate)

FairSpec == Spec /\ Fairness

-----------------------------------------------------------------------------
(* What holds of every interleaving.                                       *)

\* A session is never live and ended at once: dispatch admission, revival and
\* mark_session_ended each read and write both maps in one critical section.
LiveExcludesEnded == \A s \in Sessions : owner[s] = Nil \/ tombstone[s] = Nil

\* An end keeps the owner of the episode it ends: a tombstone without one could
\* not be revived by the transport the label belongs to.
TombstoneKeepsOwner == \A s \in Sessions : tombstone[s] # Unowned

\* A session whose end is deferred has a guard that will carry the end out, even
\* if guards of an earlier episode of the same id are still about. Otherwise the
\* session would refuse calls ("session is ending") and never end.
PendingEndHasGuard ==
    \A s \in Sessions :
        /\ inFlight[s] <= Cardinality(Guards(s))
        /\ pendingEnd[s] => inFlight[s] > 0

\* A cleanup entry that is marked running has a thread that will unmark it;
\* without one, no retry would start and the session could never be revived.
RunningCleanupHasRunner ==
    \A s \in Sessions : cleanup[s] = "running" =>
        \E t \in Threads : pc[t] = "hooks" /\ sess[t] = s

\* Once TransportOwner::close has revoked the owner, each session it still owns
\* is in the hands of a thread that ends it or of the guard that will.
ClosedOwnerIsSwept ==
    \A s \in Sessions, o \in Leased :
        owner[s] = o /\ ~live[o] =>
            \/ pendingEnd[s]
            \/ \E t \in Threads :
                \/ pc[t] = "enumerate" /\ tran[t] = o
                \/ s \in batch[t] /\ pc[t] # "sweep"
                \/ pc[t] = "mark" /\ sess[t] = s

\* A capture policy outlives its episode only until the thread that ended the
\* episode clears it: a late bind or escalation finds the tombstone.
EndedScopeIsCleared ==
    \A s \in Sessions : tombstone[s] # Nil /\ scope[s] # "none" =>
        \E t \in Threads : pc[t] = "clear" /\ sess[t] = s

\* An id belongs to one transport for good, across ends and revivals: neither a
\* guessed label nor a race between end, revival and dispatch hands it over.
Belongs(s, o) == o \in Owners /\ o \in {owner[s], tombstone[s]}
OwnerIsForLife ==
    [][\A s \in Sessions, o \in Owners : Belongs(s, o) => Belongs(s, o)']_vars

\* A deferred end is carried out.
DeferredEndHappens ==
    \A s \in Sessions : pendingEnd[s] ~> ~pendingEnd[s] /\ owner[s] = Nil
=============================================================================
