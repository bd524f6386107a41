----------------------- MODULE SessionLifecycleProofs -----------------------
(***************************************************************************)
(* Theorems about SessionLifecycle, for any sessions, owners, callers,     *)
(* hooks and policies. A proof that a step preserves an invariant has one  *)
(* step per action that can disturb it; the lemmas of the first section    *)
(* say which actions those are.                                            *)
(***************************************************************************)
EXTENDS SessionLifecycle, TLAPS

(* The thread-local half of TypeOK.                                        *)
LocalTypeOK ==
    /\ pc \in [Threads -> PCs]
    /\ call \in [Threads -> Calls]
    /\ sess \in [Threads -> Sessions \cup {Nil}]
    /\ tran \in [Threads -> Owners \cup {Nil}]
    /\ want \in [Threads -> Policies \cup {"none"}]
    /\ batch \in [Threads -> SUBSET Sessions]
    /\ work \in [Threads -> SUBSET Hooks]
    /\ won \in [Threads -> SUBSET Hooks]
    /\ \A t \in Threads : pc[t] \notin Sessionless => sess[t] \in Sessions

\* A map keeps its type when one key is written: a key that is not in the map's
\* domain changes nothing (a thread that serves no session has sess[t] = Nil).
LEMMA UpdateType ==
    ASSUME NEW S, NEW V, NEW f \in [S -> V], NEW x, NEW v, x \in S => v \in V
    PROVE  [f EXCEPT ![x] = v] \in [S -> V]
OBVIOUS

\* A handler that returns clears its locals and nothing else.
LEMMA ReturnType ==
    ASSUME LocalTypeOK, NEW t \in Threads, Return(t)
    PROVE  LocalTypeOK'
BY DEF LocalTypeOK, Return, PCs, Calls, Sessionless

\* A bulk end goes on with sessions, or returns.
LEMMA EndRestType ==
    ASSUME LocalTypeOK, NEW t \in Threads, NEW ids \in SUBSET Sessions,
           EndRest(t, ids)
    PROVE  LocalTypeOK'
<1>1. CASE ids = {}
  BY <1>1, ReturnType DEF EndRest
<1>2. CASE ids # {}
  BY <1>2 DEF EndRest, LocalTypeOK, PCs, Calls, Sessionless
<1> QED
  BY <1>1, <1>2

\* Whatever retry_session_cleanup answers, its caller goes on in a typed state.
LEMMA AfterCleanupType ==
    ASSUME LocalTypeOK, NEW t \in Threads, NEW c, AfterCleanup(t, c),
           pc[t] \notin Sessionless
    PROVE  LocalTypeOK'
<1>1. CASE call[t] # "start"
  <2>1. batch[t] \in SUBSET Sessions
    BY DEF LocalTypeOK
  <2> QED
    BY <1>1, <2>1, EndRestType DEF AfterCleanup
<1>2. CASE call[t] = "start" /\ ~c
  BY <1>2, ReturnType DEF AfterCleanup
<1>3. CASE call[t] = "start" /\ c
  BY <1>3 DEF AfterCleanup, LocalTypeOK, PCs, Calls, Sessionless
<1> QED
  BY <1>1, <1>2, <1>3

\* Every action leaves maps and locals typed.
LEMMA TypeOKStep == TypeOK /\ [Next]_vars => TypeOK'
<1> SUFFICES ASSUME TypeOK, [Next]_vars
             PROVE  TypeOK'
  OBVIOUS
<1> USE DEF Threads, TypeOK, ScopeOf, Calls, PCs, Sessionless, shared, records, progress, local
<1>a. LocalTypeOK
  BY DEF LocalTypeOK
<1>b. OwnersAssumption /\ DataAssumption
  BY OwnersAssumption, DataAssumption
<1>1. ASSUME NEW t \in Callers, NEW o \in Owners, CloseTransport(t, o)
      PROVE  TypeOK'
  BY <1>1, DataAssumption DEF CloseTransport, Enter
<1>2. ASSUME NEW t \in Callers, NEW s \in Sessions, NEW o \in Owners, CallTool(t, s, o)
      PROVE  TypeOK'
  BY <1>2, DataAssumption DEF CallTool, Enter
<1>3. ASSUME NEW t \in Callers, NEW s \in Sessions, NEW o \in Owners, EndTool(t, s, o)
      PROVE  TypeOK'
  BY <1>3, DataAssumption DEF EndTool, Enter
<1>4. ASSUME NEW t \in Callers, NEW s \in Sessions, NEW o \in Owners, NEW p \in Policies \cup {"none"}, StartTool(t, s, o, p)
      PROVE  TypeOK'
  BY <1>4, DataAssumption DEF StartTool, Enter
<1>5. ASSUME NEW t \in Threads, RefuseDispatch(t) PROVE TypeOK'
  BY <1>5, DataAssumption DEF RefuseDispatch, Return
<1>6. ASSUME NEW t \in Threads, BeginDispatch(t) PROVE TypeOK'
  <2>1. owner' \in [Sessions -> Owners \cup {Nil}]
    BY <1>6 DEF BeginDispatch
  <2>2. inFlight' \in [Sessions -> Nat]
    <3>1. sess[t] \in Sessions => inFlight[sess[t]] + 1 \in Nat
      OBVIOUS
    <3> QED
      BY <3>1, <1>6, UpdateType DEF BeginDispatch
  <2> QED
    BY <2>1, <2>2, <1>6 DEF BeginDispatch, Goto
<1>7. ASSUME NEW t \in Threads, BeginTouch(t) PROVE TypeOK'
  BY <1>7, DataAssumption DEF BeginTouch, Goto
<1>8. ASSUME NEW t \in Threads, Escalate(t) PROVE TypeOK'
  BY <1>8, DataAssumption DEF Escalate, Goto
<1>9. ASSUME NEW t \in Threads, DropGuard(t) PROVE TypeOK'
  <2>1. LocalTypeOK'
    <3>1. CASE TakesEnd(sess[t], LeftAfter(inFlight[sess[t]]))
      BY <3>1, <1>9 DEF DropGuard, Goto, LocalTypeOK
    <3>2. CASE ~TakesEnd(sess[t], LeftAfter(inFlight[sess[t]]))
      BY <3>2, <1>9, <1>a, ReturnType DEF DropGuard
    <3> QED
      BY <3>1, <3>2
  <2>2. \A n \in Nat : LeftAfter(n) \in Nat
    BY DEF LeftAfter
  <2>3. inFlight' \in [Sessions -> Nat]
    BY <2>2, <1>9 DEF DropGuard
  <2>4. activity' \in [Sessions -> {"none", "fresh", "stale"}]
    BY <1>9 DEF DropGuard
  <2>5. owner' = owner /\ pendingEnd' \in [Sessions -> BOOLEAN]
    <3>1. /\ owner' = owner
          /\ \/ pendingEnd' = pendingEnd
             \/ \E b \in BOOLEAN : pendingEnd' = [pendingEnd EXCEPT ![sess[t]] = b]
      BY <1>9 DEF DropGuard
    <3>2. pendingEnd \in [Sessions -> BOOLEAN]
      OBVIOUS
    <3> HIDE DEF TypeOK
    <3> QED
      BY <3>1, <3>2, UpdateType
  <2>6. /\ tombstone' \in [Sessions -> Owners \cup {Unowned, Nil}]
        /\ owner' \in [Sessions -> Owners \cup {Nil}]
        /\ cleanup' \in [Sessions -> {"none", "waiting", "running"}]
        /\ completed' \in [Sessions -> SUBSET Hooks]
        /\ scope' \in [Sessions -> ScopeOf]
        /\ live' \in [Owners -> BOOLEAN] /\ suspended' \in BOOLEAN
    BY <1>9, <2>5 DEF DropGuard
  <2> QED
    BY <2>1, <2>3, <2>4, <2>5, <2>6 DEF LocalTypeOK
<1>10. ASSUME NEW t \in Threads, MatchTombstone(t) PROVE TypeOK'
  <2>1. sess[t] \in Sessions
    BY <1>10 DEF MatchTombstone
  <2>2. (IF tombstone[sess[t]] = tran[t] THEN {sess[t]} ELSE {}) \in SUBSET Sessions
    BY <2>1
  <2> QED
    BY <2>2, <1>10, <1>a, EndRestType DEF MatchTombstone, LocalTypeOK
<1>11. ASSUME NEW t \in Threads, EnumerateOwned(t) PROVE TypeOK'
  BY <1>11, DataAssumption DEF EnumerateOwned, EndRest, Return
<1>12. ASSUME NEW t \in Threads, EndNext(t) PROVE TypeOK'
  <2>1. PICK s \in batch[t] :
        IF inFlight[s] > 0
        THEN DeferEnd(s) /\ EndRest(t, batch[t] \ {s})
        ELSE /\ pc' = [pc EXCEPT ![t] = "mark"]
             /\ sess' = [sess EXCEPT ![t] = s]
             /\ batch' = [batch EXCEPT ![t] = @ \ {s}]
             /\ UNCHANGED <<pendingEnd, call, tran, want, work, won>>
    BY <1>12 DEF EndNext
  <2>2. CASE inFlight[s] > 0
    <3>1. LocalTypeOK'
      BY <2>1, <2>2, <1>a, EndRestType
    <3>2. pendingEnd' \in [Sessions -> BOOLEAN]
      BY <2>1, <2>2 DEF DeferEnd
    <3> QED
      BY <3>1, <3>2, <1>12 DEF EndNext, LocalTypeOK
  <2>3. CASE ~(inFlight[s] > 0)
    BY <2>1, <2>3, <1>12 DEF EndNext
  <2> QED
    BY <2>2, <2>3
<1>13. ASSUME NEW t \in Threads, MarkEnded(t) PROVE TypeOK'
  <2>1. tombstone' \in [Sessions -> Owners \cup {Unowned, Nil}]
    <3>1. \/ tombstone' = tombstone
          \/ tombstone' = [tombstone EXCEPT ![sess[t]] = EpisodeOwner(sess[t])]
      BY <1>13 DEF MarkEnded
    <3>2. sess[t] \in Sessions =>
            EpisodeOwner(sess[t]) \in Owners \cup {Unowned, Nil}
      BY DEF EpisodeOwner
    <3>3. CASE tombstone' = tombstone
      BY <3>3
    <3>4. CASE tombstone' = [tombstone EXCEPT ![sess[t]] = EpisodeOwner(sess[t])]
      BY <3>2, <3>4, UpdateType
    <3> QED
      BY <3>1, <3>3, <3>4
  <2>2. LocalTypeOK'
    BY <1>13 DEF MarkEnded, Goto, LocalTypeOK
  <2>3. /\ activity' \in [Sessions -> {"none", "fresh", "stale"}]
        /\ owner' \in [Sessions -> Owners \cup {Nil}]
        /\ inFlight' \in [Sessions -> Nat]
        /\ pendingEnd' \in [Sessions -> BOOLEAN]
    BY <1>13 DEF MarkEnded
  <2> QED
    BY <2>1, <2>2, <2>3, <1>13 DEF MarkEnded, LocalTypeOK
<1>14. ASSUME NEW t \in Threads, ClearScope(t) PROVE TypeOK'
  BY <1>14, DataAssumption DEF ClearScope, Goto
<1>15. ASSUME NEW t \in Threads, InitCleanup(t) PROVE TypeOK'
  BY <1>15, DataAssumption DEF InitCleanup, Goto
<1>16. ASSUME NEW t \in Threads, StartCleanup(t) PROVE TypeOK'
  <2>1. CASE cleanup[sess[t]] = "waiting"
    BY <2>1, <1>16 DEF StartCleanup
  <2>2. CASE cleanup[sess[t]] # "waiting"
    BY <2>2, <1>16, <1>a, AfterCleanupType DEF StartCleanup, LocalTypeOK
  <2> QED
    BY <2>1, <2>2
<1>17. ASSUME NEW t \in Threads, RunHook(t) PROVE TypeOK'
  BY <1>17, DataAssumption DEF RunHook
<1>18. ASSUME NEW t \in Threads, RecordCleanup(t) PROVE TypeOK'
  <2>1. LocalTypeOK'
    BY <1>18, <1>a, AfterCleanupType DEF RecordCleanup
  <2>2. cleanup' \in [Sessions -> {"none", "waiting", "running"}]
    <3>1. \A done : Left(done) \in {"none", "waiting", "running"}
      BY DEF Left
    <3>2. \/ cleanup' = cleanup
          \/ \E done : cleanup' = [cleanup EXCEPT ![sess[t]] = Left(done)]
      BY <1>18 DEF RecordCleanup
    <3>3. cleanup \in [Sessions -> {"none", "waiting", "running"}]
      OBVIOUS
    <3> HIDE DEF TypeOK
    <3> QED
      BY <3>1, <3>2, <3>3, UpdateType
  <2>3. completed' \in [Sessions -> SUBSET Hooks]
    <3>1. CASE cleanup[sess[t]] = "none"
      BY <3>1, <1>18 DEF RecordCleanup
    <3>2. CASE cleanup[sess[t]] # "none"
      <4> DEFINE now == completed[sess[t]] \cup won[t]
                 left == IF now = Hooks THEN {} ELSE now
      <4>1. sess[t] \in Sessions => left \in SUBSET Hooks
        OBVIOUS
      <4>2. completed' = [completed EXCEPT ![sess[t]] = left]
        BY <3>2, <1>18 DEF RecordCleanup
      <4> HIDE DEF left
      <4> QED
        BY <4>1, <4>2, UpdateType
    <3> QED
      BY <3>1, <3>2
  <2>4. UNCHANGED <<tombstone, owner, inFlight, pendingEnd, activity, scope, live, suspended>>
    BY <1>18 DEF RecordCleanup
  <2> QED
    BY <2>1, <2>2, <2>3, <2>4 DEF LocalTypeOK
<1>19. ASSUME NEW t \in Threads, StartCheck(t) PROVE TypeOK'
  BY <1>19, DataAssumption DEF StartCheck, Goto, Return
<1>20. ASSUME NEW t \in Threads, RefuseRevive(t) PROVE TypeOK'
  BY <1>20, DataAssumption DEF RefuseRevive, Return
<1>21. ASSUME NEW t \in Threads, Revive(t) PROVE TypeOK'
  BY <1>21, DataAssumption DEF Revive, Goto
<1>22. ASSUME NEW t \in Threads, StartTouch(t) PROVE TypeOK'
  BY <1>22, DataAssumption DEF StartTouch, Goto
<1>23. ASSUME NEW t \in Threads, Bind(t) PROVE TypeOK'
  BY <1>23, DataAssumption DEF Bind, Return, Binds
<1>24. ASSUME NEW t \in Threads, EscalateLookup(t) PROVE TypeOK'
  BY <1>24, DataAssumption DEF EscalateLookup, Goto
<1>25. ASSUME SweepRecords PROVE TypeOK'
  BY <1>25, DataAssumption DEF SweepRecords, Enter
<1>26. ASSUME SweepActivity PROVE TypeOK'
  BY <1>26, DataAssumption DEF SweepActivity, EndRest, Return
<1>27. ASSUME RevokeAll PROVE TypeOK'
  BY <1>27, DataAssumption DEF RevokeAll, Enter
<1>28. ASSUME RevokeEnumerate PROVE TypeOK'
  BY <1>28, DataAssumption DEF RevokeEnumerate, EndRest, Return
<1>29. ASSUME NEW o \in Owners, Heartbeat(o) PROVE TypeOK'
  BY <1>29, DataAssumption DEF Heartbeat
<1>30. ASSUME NEW s \in Sessions, Expire(s) PROVE TypeOK'
  BY <1>30, DataAssumption DEF Expire
<1>31. CASE UNCHANGED vars
  BY <1>31 DEF vars
<1> HIDE DEF TypeOK
<1> QED
  BY <1>1, <1>2, <1>3, <1>4, <1>5, <1>6, <1>7, <1>8, <1>9, <1>10, <1>11, <1>12, <1>13, <1>14, <1>15, <1>16, <1>17, <1>18, <1>19, <1>20, <1>21, <1>22, <1>23, <1>24, <1>25, <1>26, <1>27, <1>28, <1>29, <1>30, <1>31 DEF Next, Proceed, CallerEnters

\* The maps start empty and the threads idle.
LEMMA TypeOKInit == Init => TypeOK
<1> SUFFICES ASSUME Init
             PROVE  TypeOK
  OBVIOUS
<1>1. LocalTypeOK
  BY DEF Init, LocalTypeOK, Calls, PCs, Sessionless
<1> QED
  BY <1>1 DEF Init, TypeOK, LocalTypeOK, ScopeOf

\* Every state of the lifecycle is of the type its maps and threads declare.
THEOREM TypeCorrect == Spec => []TypeOK
BY TypeOKInit, TypeOKStep, PTL DEF Spec

-----------------------------------------------------------------------------
(* Which steps write what.                                                 *)

\* What lives longer than a call and says whether a session is live or ended,
\* under which policy, and how far its cleanup is.
Quiet == UNCHANGED <<tombstone, owner, scope, cleanup>>

Writes(t) ==
    \/ BeginDispatch(t) \/ MarkEnded(t) \/ Revive(t)
    \/ Escalate(t) \/ ClearScope(t) \/ Bind(t)
    \/ InitCleanup(t) \/ StartCleanup(t) \/ RecordCleanup(t)

\* Most steps leave these four maps alone.
LEMMA Writers ==
    ASSUME [Next]_vars
    PROVE  Quiet \/ \E t \in Threads : Writes(t)
<1> DEFINE Goal == Quiet \/ \E t \in Threads : Writes(t)
<1> USE DEF shared, records, progress
<1>1. ASSUME UNCHANGED shared PROVE Goal
  BY <1>1 DEF Quiet
<1>2. ASSUME UNCHANGED <<tombstone, owner, scope, progress>> PROVE Goal
  BY <1>2 DEF Quiet
<1> HIDE DEF Goal, shared, records, progress
<1>3. ASSUME NEW t, NEW o, CloseTransport(t, o) PROVE Goal
  BY <1>2, <1>3 DEF CloseTransport, records
<1>4. ASSUME NEW t, NEW s, NEW o, CallTool(t, s, o) PROVE Goal
  BY <1>1, <1>4 DEF CallTool
<1>5. ASSUME NEW t, NEW s, NEW o, EndTool(t, s, o) PROVE Goal
  BY <1>1, <1>5 DEF EndTool
<1>6. ASSUME NEW t, NEW s, NEW o, NEW p, StartTool(t, s, o, p) PROVE Goal
  BY <1>1, <1>6 DEF StartTool
<1>7. ASSUME NEW t, CallerEnters(t) PROVE Goal
  BY <1>3, <1>4, <1>5, <1>6, <1>7 DEF CallerEnters
<1>8. ASSUME NEW t, RefuseDispatch(t) PROVE Goal
  BY <1>1, <1>8 DEF RefuseDispatch
<1>9. ASSUME NEW t, BeginTouch(t) PROVE Goal
  BY <1>2, <1>9 DEF BeginTouch, records
<1>10. ASSUME NEW t, DropGuard(t) PROVE Goal
  BY <1>2, <1>10 DEF DropGuard, records
<1>11. ASSUME NEW t, MatchTombstone(t) PROVE Goal
  BY <1>1, <1>11 DEF MatchTombstone
<1>12. ASSUME NEW t, EnumerateOwned(t) PROVE Goal
  BY <1>1, <1>12 DEF EnumerateOwned
<1>13. ASSUME NEW t, EndNext(t) PROVE Goal
  BY <1>2, <1>13 DEF EndNext
<1>14. ASSUME NEW t, RunHook(t) PROVE Goal
  BY <1>1, <1>14 DEF RunHook
<1>15. ASSUME NEW t, StartCheck(t) PROVE Goal
  BY <1>1, <1>15 DEF StartCheck
<1>16. ASSUME NEW t, RefuseRevive(t) PROVE Goal
  BY <1>1, <1>16 DEF RefuseRevive
<1>17. ASSUME NEW t, StartTouch(t) PROVE Goal
  BY <1>2, <1>17 DEF StartTouch, records
<1>18. ASSUME NEW t \in Threads, Proceed(t) PROVE Goal
  BY <1>8, <1>9, <1>10, <1>11, <1>12, <1>13, <1>14, <1>15, <1>16, <1>17, <1>18
     DEF Proceed, Writes, Goal
<1>19. ASSUME NEW t, EscalateLookup(t) PROVE Goal
  BY <1>1, <1>19 DEF EscalateLookup
<1>20. ASSUME SweepRecords \/ SweepActivity PROVE Goal
  BY <1>1, <1>20 DEF SweepRecords, SweepActivity
<1>21. ASSUME RevokeEnumerate PROVE Goal
  BY <1>1, <1>21 DEF RevokeEnumerate
<1>22. ASSUME RevokeAll PROVE Goal
  BY <1>2, <1>22 DEF RevokeAll, records
<1>23. ASSUME NEW o, Heartbeat(o) PROVE Goal
  BY <1>2, <1>23 DEF Heartbeat, records
<1>24. ASSUME NEW s, Expire(s) PROVE Goal
  BY <1>2, <1>24 DEF Expire, records
<1>25. ASSUME UNCHANGED vars PROVE Goal
  BY <1>1, <1>25 DEF vars
<1> QED
  BY <1>7, <1>18, <1>19, <1>20, <1>21, <1>22, <1>23, <1>24, <1>25 DEF Next, Goal

\* Tombstones and live records change in three places of the code only.
LEMMA OwnershipSteps ==
    ASSUME [Next]_vars
    PROVE  \/ UNCHANGED <<tombstone, owner>>
           \/ \E t \in Threads : BeginDispatch(t) \/ MarkEnded(t) \/ Revive(t)
<1>1. ASSUME NEW t \in Threads, Escalate(t) \/ ClearScope(t) \/ Bind(t)
      PROVE  UNCHANGED <<tombstone, owner>>
  BY <1>1 DEF Escalate, ClearScope, Bind, records
<1>2. ASSUME NEW t \in Threads, InitCleanup(t) \/ StartCleanup(t) \/ RecordCleanup(t)
      PROVE  UNCHANGED <<tombstone, owner>>
  BY <1>2 DEF InitCleanup, StartCleanup, RecordCleanup, records
<1> QED
  BY <1>1, <1>2, Writers DEF Quiet, Writes

\* Who holds a session, and whether its transport is open, changes in four
\* places of the code only.
LEMMA AuthoritySteps ==
    ASSUME [Next]_vars
    PROVE  \/ UNCHANGED <<tombstone, owner, live>>
           \/ \E t \in Threads : BeginDispatch(t) \/ MarkEnded(t) \/ Revive(t)
           \/ \E t \in Threads, o \in Owners : CloseTransport(t, o)
<1> DEFINE Closes == \E t \in Threads, o \in Owners : CloseTransport(t, o)
<1> DEFINE Goal == UNCHANGED live \/ Closes
<1>1. ASSUME NEW t \in Callers, CallerEnters(t) PROVE Goal
  <2>1. t \in Threads
    BY DEF Threads
  <2>2. ASSUME NEW s, NEW o, CallTool(t, s, o) PROVE UNCHANGED live
    BY <2>2 DEF CallTool, shared
  <2>3. ASSUME NEW s, NEW o, EndTool(t, s, o) PROVE UNCHANGED live
    BY <2>3 DEF EndTool, shared
  <2>4. ASSUME NEW s, NEW o, NEW p, StartTool(t, s, o, p) PROVE UNCHANGED live
    BY <2>4 DEF StartTool, shared
  <2> QED
    BY <1>1, <2>1, <2>2, <2>3, <2>4 DEF CallerEnters
<1>2. ASSUME NEW t \in Threads, Proceed(t) PROVE UNCHANGED live
  <2>1. CASE \/ RefuseDispatch(t) \/ MatchTombstone(t) \/ EnumerateOwned(t)
             \/ RunHook(t) \/ StartCheck(t) \/ RefuseRevive(t)
    BY <2>1 DEF RefuseDispatch, MatchTombstone, EnumerateOwned, RunHook,
                StartCheck, RefuseRevive, shared
  <2>2. CASE \/ BeginDispatch(t) \/ BeginTouch(t) \/ Escalate(t) \/ DropGuard(t)
             \/ EndNext(t) \/ MarkEnded(t) \/ ClearScope(t) \/ InitCleanup(t)
    BY <2>2 DEF BeginDispatch, BeginTouch, Escalate, DropGuard, EndNext,
                MarkEnded, ClearScope, InitCleanup
  <2>3. CASE \/ StartCleanup(t) \/ RecordCleanup(t) \/ Revive(t)
             \/ StartTouch(t) \/ Bind(t)
    BY <2>3 DEF StartCleanup, RecordCleanup, Revive, StartTouch, Bind
  <2> QED
    BY <1>2, <2>1, <2>2, <2>3 DEF Proceed
<1>3. ASSUME NEW t, EscalateLookup(t) PROVE UNCHANGED live
  BY <1>3 DEF EscalateLookup, shared
<1>4. ASSUME SweepRecords \/ SweepActivity \/ RevokeAll \/ RevokeEnumerate
      PROVE  UNCHANGED live
  BY <1>4 DEF SweepRecords, SweepActivity, RevokeAll, RevokeEnumerate, shared
<1>5. ASSUME NEW o, Heartbeat(o) PROVE UNCHANGED live
  BY <1>5 DEF Heartbeat
<1>6. ASSUME NEW s, Expire(s) PROVE UNCHANGED live
  BY <1>6 DEF Expire
<1>7. ASSUME UNCHANGED vars PROVE UNCHANGED live
  BY <1>7 DEF vars, shared
<1>8. Goal
  BY <1>1, <1>2, <1>3, <1>4, <1>5, <1>6, <1>7 DEF Next
<1> QED
  BY <1>8, OwnershipSteps

\* A capture policy changes in three places of the code only.
LEMMA ScopeSteps ==
    ASSUME [Next]_vars
    PROVE  \/ UNCHANGED scope
           \/ \E t \in Threads : Escalate(t) \/ ClearScope(t) \/ Bind(t)
<1>1. ASSUME NEW t \in Threads, BeginDispatch(t) \/ MarkEnded(t) \/ Revive(t)
      PROVE  UNCHANGED scope
  BY <1>1 DEF BeginDispatch, MarkEnded, Revive
<1>2. ASSUME NEW t \in Threads, InitCleanup(t) \/ StartCleanup(t) \/ RecordCleanup(t)
      PROVE  UNCHANGED scope
  BY <1>2 DEF InitCleanup, StartCleanup, RecordCleanup
<1> QED
  BY <1>1, <1>2, Writers DEF Quiet, Writes

\* Cleanup progress changes in three places of the code only.
LEMMA CleanupSteps ==
    ASSUME [Next]_vars
    PROVE  \/ UNCHANGED cleanup
           \/ \E t \in Threads : InitCleanup(t) \/ StartCleanup(t) \/ RecordCleanup(t)
<1>1. ASSUME NEW t \in Threads, BeginDispatch(t) \/ MarkEnded(t) \/ Revive(t)
      PROVE  UNCHANGED cleanup
  BY <1>1 DEF BeginDispatch, MarkEnded, Revive, progress
<1>2. ASSUME NEW t \in Threads, Escalate(t) \/ ClearScope(t) \/ Bind(t)
      PROVE  UNCHANGED cleanup
  BY <1>2 DEF Escalate, ClearScope, Bind, progress
<1> QED
  BY <1>1, <1>2, Writers DEF Quiet, Writes

-----------------------------------------------------------------------------
(* A session is live or ended, never both.                                 *)

\* Admission and revival see the tombstone in the critical section that binds
\* the record; an end removes the record in the one that leaves the tombstone.
LEMMA LiveExcludesEndedStep ==
    TypeOK /\ LiveExcludesEnded /\ [Next]_vars => LiveExcludesEnded'
<1> SUFFICES ASSUME TypeOK, LiveExcludesEnded, [Next]_vars, NEW s \in Sessions
             PROVE  owner'[s] = Nil \/ tombstone'[s] = Nil
  BY DEF LiveExcludesEnded
<1>1. owner[s] = Nil \/ tombstone[s] = Nil
  BY DEF LiveExcludesEnded
<1>2. CASE UNCHANGED <<tombstone, owner>>
  BY <1>1, <1>2
<1>3. ASSUME NEW t \in Threads, BeginDispatch(t)
      PROVE  owner'[s] = Nil \/ tombstone'[s] = Nil
  BY <1>1, <1>3 DEF BeginDispatch, DispatchRefused, TypeOK
<1>4. ASSUME NEW t \in Threads, MarkEnded(t)
      PROVE  owner'[s] = Nil \/ tombstone'[s] = Nil
  BY <1>1, <1>4 DEF MarkEnded, TypeOK
<1>5. ASSUME NEW t \in Threads, Revive(t)
      PROVE  owner'[s] = Nil \/ tombstone'[s] = Nil
  BY <1>1, <1>5 DEF Revive, TypeOK
<1> QED
  BY <1>2, <1>3, <1>4, <1>5, OwnershipSteps

\* A session is never live and ended at once.
THEOREM LiveOrEnded == Spec => []LiveExcludesEnded
<1>1. Init => LiveExcludesEnded
  BY DEF Init, LiveExcludesEnded
<1> QED
  BY <1>1, LiveExcludesEndedStep, TypeCorrect, PTL DEF Spec

-----------------------------------------------------------------------------
(* An id that has been live once stays known, with its owner.              *)

Known(s) == owner[s] # Nil \/ tombstone[s] # Nil

\* A thread that compares or records an owner has one.
ControlOK ==
    \A t \in Threads :
        /\ pc[t] \in {"admitting", "match_tombstone", "enumerate",
                     "start_check", "revive"} => tran[t] \in Owners
        /\ call[t] = "start" =>
              /\ pc[t] \in {"start_check", "retry", "hooks", "revive",
                           "start_touch", "bind"}
              /\ tran[t] \in Owners
        /\ pc[t] \in {"start_check", "revive"} => call[t] = "start"

\* Only a live record counts dispatches or waits for its end.
RecordOK ==
    \A s \in Sessions : inFlight[s] > 0 \/ pendingEnd[s] => owner[s] # Nil

\* What has an activity entry, or is about to be ended, has been live.
KnownOK ==
    /\ \A s \in Sessions : activity[s] # "none" => Known(s)
    /\ \A t \in Threads :
        /\ pc[t] # "sweep" => \A s \in batch[t] : Known(s)
        /\ pc[t] \in {"begin_touch", "start_touch", "mark"} => Known(sess[t])

IInv == TypeOK /\ LiveExcludesEnded /\ ControlOK /\ RecordOK /\ KnownOK

\* After a cleanup attempt a thread revives on behalf of its start_session, goes
\* on with its list, or returns.
LEMMA AfterCleanupControl ==
    ASSUME TypeOK, ControlOK, NEW t \in Threads, NEW c, AfterCleanup(t, c),
           pc[t] \in {"retry", "hooks"}
    PROVE  ControlOK'
<1> USE DEF TypeOK, ControlOK
<1>1. CASE call[t] # "start"
  <2>0. EndRest(t, batch[t])
    BY <1>1 DEF AfterCleanup
  <2>1. CASE batch[t] = {}
    BY <1>1, <2>0, <2>1 DEF EndRest, Return
  <2>2. CASE batch[t] # {}
    BY <1>1, <2>0, <2>2 DEF EndRest
  <2> QED
    BY <2>1, <2>2
<1>2. CASE call[t] = "start" /\ ~c
  BY <1>2 DEF AfterCleanup, Return
<1>3. CASE call[t] = "start" /\ c
  BY <1>3 DEF AfterCleanup
<1> QED
  BY <1>1, <1>2, <1>3
\* Every handler keeps the owner it compares.
LEMMA ControlStep ==
    TypeOK /\ ControlOK /\  [Next]_vars => ControlOK'
<1> SUFFICES ASSUME TypeOK, ControlOK, [Next]_vars
             PROVE  ControlOK'
  OBVIOUS
<1> USE DEF Threads, TypeOK, ControlOK, vars, shared, records, progress, local
<1>1. ASSUME NEW t \in Callers, NEW o \in Owners, CloseTransport(t, o)
      PROVE  ControlOK'
  BY <1>1 DEF CloseTransport, Enter
<1>2. ASSUME NEW t \in Callers, NEW s \in Sessions, NEW o \in Owners, CallTool(t, s, o)
      PROVE  ControlOK'
  BY <1>2 DEF CallTool, Enter
<1>3. ASSUME NEW t \in Callers, NEW s \in Sessions, NEW o \in Owners, EndTool(t, s, o)
      PROVE  ControlOK'
  BY <1>3 DEF EndTool, Enter
<1>4. ASSUME NEW t \in Callers, NEW s \in Sessions, NEW o \in Owners, NEW p \in Policies \cup {"none"}, StartTool(t, s, o, p)
      PROVE  ControlOK'
  BY <1>4 DEF StartTool, Enter
<1>5. ASSUME NEW t \in Threads, RefuseDispatch(t) PROVE ControlOK'
  BY <1>5 DEF RefuseDispatch, Return
<1>6. ASSUME NEW t \in Threads, BeginDispatch(t) PROVE ControlOK'
  BY <1>6 DEF BeginDispatch, Goto
<1>7. ASSUME NEW t \in Threads, BeginTouch(t) PROVE ControlOK'
  BY <1>7 DEF BeginTouch, Goto
<1>8. ASSUME NEW t \in Threads, Escalate(t) PROVE ControlOK'
  BY <1>8 DEF Escalate, Goto
<1>9. ASSUME NEW t \in Threads, DropGuard(t) PROVE ControlOK'
  BY <1>9 DEF DropGuard, Goto, Return
<1>10. ASSUME NEW t \in Threads, MatchTombstone(t) PROVE ControlOK'
  BY <1>10 DEF MatchTombstone, EndRest, Return
<1>11. ASSUME NEW t \in Threads, EnumerateOwned(t) PROVE ControlOK'
  BY <1>11 DEF EnumerateOwned, EndRest, Return
<1>12. ASSUME NEW t \in Threads, EndNext(t) PROVE ControlOK'
  BY <1>12 DEF EndNext, EndRest, Return, DeferEnd
<1>13. ASSUME NEW t \in Threads, MarkEnded(t) PROVE ControlOK'
  BY <1>13 DEF MarkEnded, Goto
<1>14. ASSUME NEW t \in Threads, ClearScope(t) PROVE ControlOK'
  BY <1>14 DEF ClearScope, Goto
<1>15. ASSUME NEW t \in Threads, InitCleanup(t) PROVE ControlOK'
  BY <1>15 DEF InitCleanup, Goto
<1>16. ASSUME NEW t \in Threads, StartCleanup(t) PROVE ControlOK'
  <2>1. CASE cleanup[sess[t]] = "waiting"
    BY <2>1, <1>16 DEF StartCleanup
  <2>2. CASE cleanup[sess[t]] # "waiting"
    BY <2>2, <1>16, AfterCleanupControl DEF StartCleanup
  <2> QED
    BY <2>1, <2>2
<1>17. ASSUME NEW t \in Threads, RunHook(t) PROVE ControlOK'
  BY <1>17 DEF RunHook
<1>18. ASSUME NEW t \in Threads, RecordCleanup(t) PROVE ControlOK'
  BY <1>18, AfterCleanupControl DEF RecordCleanup
<1>19. ASSUME NEW t \in Threads, StartCheck(t) PROVE ControlOK'
  <2>1. CASE Foreign(sess[t], tran[t])
    BY <2>1, <1>19 DEF StartCheck, Return
  <2>2. CASE ~Foreign(sess[t], tran[t])
    BY <2>2, <1>19 DEF StartCheck, Goto
  <2> QED
    BY <2>1, <2>2
<1>20. ASSUME NEW t \in Threads, RefuseRevive(t) PROVE ControlOK'
  BY <1>20 DEF RefuseRevive, Return
<1>21. ASSUME NEW t \in Threads, Revive(t) PROVE ControlOK'
  BY <1>21 DEF Revive, Goto
<1>22. ASSUME NEW t \in Threads, StartTouch(t) PROVE ControlOK'
  BY <1>22 DEF StartTouch, Goto
<1>23. ASSUME NEW t \in Threads, Bind(t) PROVE ControlOK'
  BY <1>23 DEF Bind, Return
<1>24. ASSUME NEW t \in Threads, EscalateLookup(t) PROVE ControlOK'
  BY <1>24 DEF EscalateLookup, Goto
<1>25. ASSUME SweepRecords PROVE ControlOK'
  BY <1>25 DEF SweepRecords, Enter
<1>26. ASSUME SweepActivity PROVE ControlOK'
  BY <1>26 DEF SweepActivity, EndRest, Return
<1>27. ASSUME RevokeAll PROVE ControlOK'
  BY <1>27 DEF RevokeAll, Enter
<1>28. ASSUME RevokeEnumerate PROVE ControlOK'
  BY <1>28 DEF RevokeEnumerate, EndRest, Return
<1>29. ASSUME NEW o \in Owners, Heartbeat(o) PROVE ControlOK'
  BY <1>29 DEF Heartbeat
<1>30. ASSUME NEW s \in Sessions, Expire(s) PROVE ControlOK'
  BY <1>30 DEF Expire
<1>31. CASE UNCHANGED vars
  BY <1>31 DEF vars
<1> HIDE DEF TypeOK, ControlOK
<1> QED
  BY <1>1, <1>2, <1>3, <1>4, <1>5, <1>6, <1>7, <1>8, <1>9, <1>10,
     <1>11, <1>12, <1>13, <1>14, <1>15, <1>16, <1>17, <1>18, <1>19, <1>20,
     <1>21, <1>22, <1>23, <1>24, <1>25, <1>26, <1>27, <1>28, <1>29, <1>30,
     <1>31
     DEF Next, Proceed, CallerEnters

\* A record loses its owner only together with its counters.
LEMMA RecordStep ==
    TypeOK /\ ControlOK /\ RecordOK /\  [Next]_vars => RecordOK'
<1> SUFFICES ASSUME TypeOK, ControlOK, RecordOK, [Next]_vars
             PROVE  RecordOK'
  OBVIOUS
<1> USE DEF Threads, TypeOK, ControlOK, RecordOK, vars, shared, records, progress, local
<1>1. ASSUME NEW t \in Callers, NEW o \in Owners, CloseTransport(t, o)
      PROVE  RecordOK'
  BY <1>1 DEF CloseTransport, Enter
<1>2. ASSUME NEW t \in Callers, NEW s \in Sessions, NEW o \in Owners, CallTool(t, s, o)
      PROVE  RecordOK'
  BY <1>2 DEF CallTool, Enter
<1>3. ASSUME NEW t \in Callers, NEW s \in Sessions, NEW o \in Owners, EndTool(t, s, o)
      PROVE  RecordOK'
  BY <1>3 DEF EndTool, Enter
<1>4. ASSUME NEW t \in Callers, NEW s \in Sessions, NEW o \in Owners, NEW p \in Policies \cup {"none"}, StartTool(t, s, o, p)
      PROVE  RecordOK'
  BY <1>4 DEF StartTool, Enter
<1>5. ASSUME NEW t \in Threads, RefuseDispatch(t) PROVE RecordOK'
  BY <1>5 DEF RefuseDispatch, Return
<1>6. ASSUME NEW t \in Threads, BeginDispatch(t) PROVE RecordOK'
  <2>1. tran[t] \in Owners /\ tran[t] # Nil /\ sess[t] \in Sessions
    BY <1>6, OwnersAssumption DEF BeginDispatch, Sessionless
  <2> QED
    BY <2>1, <1>6 DEF BeginDispatch
<1>7. ASSUME NEW t \in Threads, BeginTouch(t) PROVE RecordOK'
  BY <1>7 DEF BeginTouch, Goto
<1>8. ASSUME NEW t \in Threads, Escalate(t) PROVE RecordOK'
  BY <1>8 DEF Escalate, Goto
<1>9. ASSUME NEW t \in Threads, DropGuard(t) PROVE RecordOK'
  BY <1>9 DEF DropGuard, Goto, Return
<1>10. ASSUME NEW t \in Threads, MatchTombstone(t) PROVE RecordOK'
  BY <1>10 DEF MatchTombstone, EndRest, Return
<1>11. ASSUME NEW t \in Threads, EnumerateOwned(t) PROVE RecordOK'
  BY <1>11 DEF EnumerateOwned, EndRest, Return
<1>12. ASSUME NEW t \in Threads, EndNext(t) PROVE RecordOK'
  BY <1>12 DEF EndNext, EndRest, Return, DeferEnd
<1>13. ASSUME NEW t \in Threads, MarkEnded(t) PROVE RecordOK'
  BY <1>13 DEF MarkEnded, Goto
<1>14. ASSUME NEW t \in Threads, ClearScope(t) PROVE RecordOK'
  BY <1>14 DEF ClearScope, Goto
<1>15. ASSUME NEW t \in Threads, InitCleanup(t) PROVE RecordOK'
  BY <1>15 DEF InitCleanup, Goto
<1>16. ASSUME NEW t \in Threads, StartCleanup(t) PROVE RecordOK'
  BY <1>16 DEF StartCleanup, AfterCleanup, EndRest, Return
<1>17. ASSUME NEW t \in Threads, RunHook(t) PROVE RecordOK'
  BY <1>17 DEF RunHook
<1>18. ASSUME NEW t \in Threads, RecordCleanup(t) PROVE RecordOK'
  BY <1>18 DEF RecordCleanup, AfterCleanup, EndRest, Return
<1>19. ASSUME NEW t \in Threads, StartCheck(t) PROVE RecordOK'
  BY <1>19 DEF StartCheck, Goto, Return
<1>20. ASSUME NEW t \in Threads, RefuseRevive(t) PROVE RecordOK'
  BY <1>20 DEF RefuseRevive, Return
<1>21. ASSUME NEW t \in Threads, Revive(t) PROVE RecordOK'
  <2>1. tran[t] \in Owners /\ tran[t] # Nil
    BY <1>21, OwnersAssumption DEF Revive
  <2> QED
    BY <2>1, <1>21 DEF Revive
<1>22. ASSUME NEW t \in Threads, StartTouch(t) PROVE RecordOK'
  BY <1>22 DEF StartTouch, Goto
<1>23. ASSUME NEW t \in Threads, Bind(t) PROVE RecordOK'
  BY <1>23 DEF Bind, Return
<1>24. ASSUME NEW t \in Threads, EscalateLookup(t) PROVE RecordOK'
  BY <1>24 DEF EscalateLookup, Goto
<1>25. ASSUME SweepRecords PROVE RecordOK'
  BY <1>25 DEF SweepRecords, Enter
<1>26. ASSUME SweepActivity PROVE RecordOK'
  BY <1>26 DEF SweepActivity, EndRest, Return
<1>27. ASSUME RevokeAll PROVE RecordOK'
  BY <1>27 DEF RevokeAll, Enter
<1>28. ASSUME RevokeEnumerate PROVE RecordOK'
  BY <1>28 DEF RevokeEnumerate, EndRest, Return
<1>29. ASSUME NEW o \in Owners, Heartbeat(o) PROVE RecordOK'
  BY <1>29 DEF Heartbeat
<1>30. ASSUME NEW s \in Sessions, Expire(s) PROVE RecordOK'
  BY <1>30 DEF Expire
<1>31. CASE UNCHANGED vars
  BY <1>31 DEF vars
<1> HIDE DEF TypeOK, ControlOK, RecordOK
<1> QED
  BY <1>1, <1>2, <1>3, <1>4, <1>5, <1>6, <1>7, <1>8, <1>9, <1>10,
     <1>11, <1>12, <1>13, <1>14, <1>15, <1>16, <1>17, <1>18, <1>19, <1>20,
     <1>21, <1>22, <1>23, <1>24, <1>25, <1>26, <1>27, <1>28, <1>29, <1>30,
     <1>31
     DEF Next, Proceed, CallerEnters

\* A list of known sessions is a list a thread may go on with.
LEMMA EndRestKnown ==
    ASSUME TypeOK, KnownOK, NEW t \in Threads, NEW ids \in SUBSET Sessions,
           \A s \in ids : Known(s), EndRest(t, ids),
           UNCHANGED <<tombstone, owner, activity>>
    PROVE  KnownOK'
<1> USE DEF TypeOK, KnownOK, Known
<1>1. CASE ids = {}
  BY <1>1 DEF EndRest, Return
<1>2. CASE ids # {}
  BY <1>2 DEF EndRest
<1> QED
  BY <1>1, <1>2

\* A cleanup attempt neither lists sessions nor touches them.
LEMMA AfterCleanupKnown ==
    ASSUME TypeOK, KnownOK, NEW t \in Threads, NEW c, AfterCleanup(t, c),
           pc[t] \in {"retry", "hooks"}, UNCHANGED <<tombstone, owner, activity>>
    PROVE  KnownOK'
<1>1. CASE call[t] # "start"
  <2>1. batch[t] \in SUBSET Sessions /\ \A s \in batch[t] : Known(s)
    BY DEF TypeOK, KnownOK
  <2>2. EndRest(t, batch[t])
    BY <1>1 DEF AfterCleanup
  <2> QED
    BY <2>1, <2>2, EndRestKnown
<1> USE DEF TypeOK, KnownOK, Known
<1>2. CASE call[t] = "start" /\ ~c
  BY <1>2 DEF AfterCleanup, Return
<1>3. CASE call[t] = "start" /\ c
  BY <1>3 DEF AfterCleanup
<1> QED
  BY <1>1, <1>2, <1>3

\* No step makes an id unknown, and only known ids are touched or ended.
LEMMA KnownStep ==
    TypeOK /\ ControlOK /\ RecordOK /\ KnownOK /\  [Next]_vars => KnownOK'
<1> SUFFICES ASSUME TypeOK, ControlOK, RecordOK, KnownOK, [Next]_vars
             PROVE  KnownOK'
  OBVIOUS
<1> USE DEF Threads, TypeOK, ControlOK, RecordOK, KnownOK, Known, vars, shared, records, progress, local
<1>1. ASSUME NEW t \in Callers, NEW o \in Owners, CloseTransport(t, o)
      PROVE  KnownOK'
  BY <1>1 DEF CloseTransport, Enter
<1>2. ASSUME NEW t \in Callers, NEW s \in Sessions, NEW o \in Owners, CallTool(t, s, o)
      PROVE  KnownOK'
  BY <1>2 DEF CallTool, Enter
<1>3. ASSUME NEW t \in Callers, NEW s \in Sessions, NEW o \in Owners, EndTool(t, s, o)
      PROVE  KnownOK'
  <2>1. o # Nil
    BY OwnersAssumption
  <2> QED
    BY <2>1, <1>3 DEF EndTool, Enter
<1>4. ASSUME NEW t \in Callers, NEW s \in Sessions, NEW o \in Owners, NEW p \in Policies \cup {"none"}, StartTool(t, s, o, p)
      PROVE  KnownOK'
  BY <1>4 DEF StartTool, Enter
<1>5. ASSUME NEW t \in Threads, RefuseDispatch(t) PROVE KnownOK'
  BY <1>5 DEF RefuseDispatch, Return
<1>6. ASSUME NEW t \in Threads, BeginDispatch(t) PROVE KnownOK'
  <2>1. tran[t] # Nil /\ sess[t] \in Sessions
    BY <1>6, OwnersAssumption DEF BeginDispatch, Sessionless
  <2>2. owner'[sess[t]] # Nil /\ (\A s \in Sessions : Known(s) => Known(s)')
    <3>1. owner' = [owner EXCEPT ![sess[t]] = tran[t]] /\ UNCHANGED tombstone
      BY <1>6 DEF BeginDispatch
    <3>2. owner'[sess[t]] # Nil
      BY <2>1, <3>1
    <3>3. \A s \in Sessions : s # sess[t] => owner'[s] = owner[s]
      BY <3>1
    <3> QED
      BY <3>1, <3>2, <3>3, <2>1
  <2> QED
    BY <2>1, <2>2, <1>6 DEF BeginDispatch, Goto
<1>7. ASSUME NEW t \in Threads, BeginTouch(t) PROVE KnownOK'
  BY <1>7 DEF BeginTouch, Goto
<1>8. ASSUME NEW t \in Threads, Escalate(t) PROVE KnownOK'
  BY <1>8 DEF Escalate, Goto
<1>9. ASSUME NEW t \in Threads, DropGuard(t) PROVE KnownOK'
  <2>1. sess[t] \in Sessions
    BY <1>9 DEF DropGuard, Sessionless
  <2>2. UNCHANGED <<owner, tombstone>> /\ \A s \in Sessions : Known(s) => Known(s)'
    BY <1>9 DEF DropGuard
  <2>3. \A s \in Sessions : activity'[s] # "none" => Known(s)
    BY <2>1, <1>9 DEF DropGuard
  <2>4. CASE TakesEnd(sess[t], LeftAfter(inFlight[sess[t]]))
    <3>1. pc' = [pc EXCEPT ![t] = "mark"] /\ UNCHANGED <<sess, batch>>
      BY <2>4, <1>9 DEF DropGuard, Goto
    <3>2. owner[sess[t]] # Nil
      BY <2>1, <2>4 DEF TakesEnd
    <3>3. \A u \in Threads : u # t => pc'[u] = pc[u]
      BY <3>1
    <3>4. \A u \in Threads : pc'[u] # "sweep" => \A s \in batch[u] : Known(s)
      BY <1>9, <3>1, <3>3 DEF DropGuard
    <3>5. \A u \in Threads : pc'[u] \in {"begin_touch", "start_touch", "mark"}
            => Known(sess[u])
      BY <3>2, <3>3
    <3> QED
      BY <2>2, <2>3, <3>1, <3>4, <3>5
  <2>5. CASE ~TakesEnd(sess[t], LeftAfter(inFlight[sess[t]]))
    BY <2>2, <2>3, <2>5, <1>9 DEF DropGuard, Return
  <2> QED
    BY <2>4, <2>5
<1>10. ASSUME NEW t \in Threads, MatchTombstone(t) PROVE KnownOK'
  <2> DEFINE ids == IF tombstone[sess[t]] = tran[t] THEN {sess[t]} ELSE {}
  <2>1. tran[t] # Nil /\ sess[t] \in Sessions
    BY <1>10, OwnersAssumption DEF MatchTombstone, Sessionless
  <2>2. ids \in SUBSET Sessions /\ \A s \in ids : Known(s)
    BY <2>1
  <2>3. EndRest(t, ids) /\ UNCHANGED <<tombstone, owner, activity>>
    BY <1>10 DEF MatchTombstone
  <2> HIDE DEF ids, TypeOK, KnownOK, Known
  <2> QED
    BY <2>2, <2>3, EndRestKnown
<1>11. ASSUME NEW t \in Threads, EnumerateOwned(t) PROVE KnownOK'
  <2> DEFINE ids == {s \in Sessions : owner[s] = tran[t]}
  <2>1. tran[t] # Nil
    BY <1>11, OwnersAssumption DEF EnumerateOwned
  <2>2. ids \in SUBSET Sessions /\ \A s \in ids : Known(s)
    BY <2>1
  <2>3. EndRest(t, ids) /\ UNCHANGED <<tombstone, owner, activity>>
    BY <1>11 DEF EnumerateOwned
  <2> HIDE DEF ids, TypeOK, KnownOK, Known
  <2> QED
    BY <2>2, <2>3, EndRestKnown
<1>12. ASSUME NEW t \in Threads, EndNext(t) PROVE KnownOK'
  BY <1>12 DEF EndNext, EndRest, Return, DeferEnd
<1>13. ASSUME NEW t \in Threads, MarkEnded(t) PROVE KnownOK'
  <2>1. sess[t] \in Sessions
    BY <1>13 DEF MarkEnded, Sessionless
  <2>2. EpisodeOwner(sess[t]) # Nil
    BY <2>1, OwnersAssumption DEF EpisodeOwner
  <2>3. tombstone'[sess[t]] # Nil
    BY <2>1, <2>2, <1>13 DEF MarkEnded
  <2>4. \A s \in Sessions : Known(s) => Known(s)'
    BY <2>3, <1>13 DEF MarkEnded
  <2>5. \A s \in Sessions : activity'[s] # "none" => Known(s)
    BY <1>13 DEF MarkEnded
  <2> QED
    BY <2>4, <2>5, <1>13 DEF MarkEnded, Goto
<1>14. ASSUME NEW t \in Threads, ClearScope(t) PROVE KnownOK'
  BY <1>14 DEF ClearScope, Goto
<1>15. ASSUME NEW t \in Threads, InitCleanup(t) PROVE KnownOK'
  BY <1>15 DEF InitCleanup, Goto
<1>16. ASSUME NEW t \in Threads, StartCleanup(t) PROVE KnownOK'
  <2>1. CASE cleanup[sess[t]] = "waiting"
    BY <2>1, <1>16 DEF StartCleanup
  <2>2. CASE cleanup[sess[t]] # "waiting"
    BY <2>2, <1>16, AfterCleanupKnown DEF StartCleanup
  <2> QED
    BY <2>1, <2>2
<1>17. ASSUME NEW t \in Threads, RunHook(t) PROVE KnownOK'
  BY <1>17 DEF RunHook
<1>18. ASSUME NEW t \in Threads, RecordCleanup(t) PROVE KnownOK'
  BY <1>18, AfterCleanupKnown DEF RecordCleanup
<1>19. ASSUME NEW t \in Threads, StartCheck(t) PROVE KnownOK'
  BY <1>19 DEF StartCheck, Goto, Return
<1>20. ASSUME NEW t \in Threads, RefuseRevive(t) PROVE KnownOK'
  BY <1>20 DEF RefuseRevive, Return
<1>21. ASSUME NEW t \in Threads, Revive(t) PROVE KnownOK'
  <2>1. tran[t] # Nil /\ sess[t] \in Sessions
    BY <1>21, OwnersAssumption DEF Revive, Sessionless
  <2>2. owner'[sess[t]] # Nil /\ (\A s \in Sessions : Known(s) => Known(s)')
    <3>1. /\ owner' = [owner EXCEPT ![sess[t]] = tran[t]]
          /\ tombstone' = [tombstone EXCEPT ![sess[t]] = Nil]
      BY <1>21 DEF Revive
    <3>2. owner'[sess[t]] # Nil
      BY <2>1, <3>1
    <3>3. \A s \in Sessions : s # sess[t] =>
            owner'[s] = owner[s] /\ tombstone'[s] = tombstone[s]
      BY <3>1
    <3> QED
      BY <3>2, <3>3, <2>1
  <2> QED
    BY <2>1, <2>2, <1>21 DEF Revive, Goto
<1>22. ASSUME NEW t \in Threads, StartTouch(t) PROVE KnownOK'
  BY <1>22 DEF StartTouch, Goto
<1>23. ASSUME NEW t \in Threads, Bind(t) PROVE KnownOK'
  BY <1>23 DEF Bind, Return
<1>24. ASSUME NEW t \in Threads, EscalateLookup(t) PROVE KnownOK'
  BY <1>24 DEF EscalateLookup, Goto
<1>25. ASSUME SweepRecords PROVE KnownOK'
  BY <1>25 DEF SweepRecords, Enter
<1>26. ASSUME SweepActivity PROVE KnownOK'
  <2> DEFINE ids == {s \in batch[Sweeper] : activity[s] = "stale"}
  <2>1. Sweeper \in Threads
    OBVIOUS
  <2>2. ids \in SUBSET Sessions /\ \A s \in ids : Known(s)
    BY <2>1
  <2>3. EndRest(Sweeper, ids) /\ UNCHANGED <<tombstone, owner, activity>>
    BY <1>26 DEF SweepActivity
  <2> HIDE DEF ids, TypeOK, KnownOK, Known, Threads
  <2> QED
    BY <2>1, <2>2, <2>3, EndRestKnown
<1>27. ASSUME RevokeAll PROVE KnownOK'
  BY <1>27 DEF RevokeAll, Enter
<1>28. ASSUME RevokeEnumerate PROVE KnownOK'
  <2> DEFINE ids == {s \in Sessions : activity[s] # "none"}
  <2>1. Operator \in Threads
    OBVIOUS
  <2>2. ids \in SUBSET Sessions /\ \A s \in ids : Known(s)
    OBVIOUS
  <2>3. EndRest(Operator, ids) /\ UNCHANGED <<tombstone, owner, activity>>
    BY <1>28 DEF RevokeEnumerate
  <2> HIDE DEF ids, TypeOK, KnownOK, Known, Threads
  <2> QED
    BY <2>1, <2>2, <2>3, EndRestKnown
<1>29. ASSUME NEW o \in Owners, Heartbeat(o) PROVE KnownOK'
  BY <1>29 DEF Heartbeat
<1>30. ASSUME NEW s \in Sessions, Expire(s) PROVE KnownOK'
  BY <1>30 DEF Expire
<1>31. CASE UNCHANGED vars
  BY <1>31 DEF vars
<1> HIDE DEF TypeOK, ControlOK, RecordOK, KnownOK
<1> QED
  BY <1>1, <1>2, <1>3, <1>4, <1>5, <1>6, <1>7, <1>8, <1>9, <1>10,
     <1>11, <1>12, <1>13, <1>14, <1>15, <1>16, <1>17, <1>18, <1>19, <1>20,
     <1>21, <1>22, <1>23, <1>24, <1>25, <1>26, <1>27, <1>28, <1>29, <1>30,
     <1>31
     DEF Next, Proceed, CallerEnters

\* The inductive invariant.
LEMMA Inductive == Spec => []IInv
<1>1. Init => IInv
  <2>1. Init => TypeOK /\ LiveExcludesEnded
    BY TypeOKInit DEF Init, LiveExcludesEnded
  <2>2. Init => ControlOK /\ RecordOK
    BY DEF Init, ControlOK, RecordOK
  <2>3. Init => KnownOK
    BY DEF Init, KnownOK
  <2> QED
    BY <2>1, <2>2, <2>3 DEF IInv
<1>2. IInv /\ [Next]_vars => IInv'
  BY TypeOKStep, LiveExcludesEndedStep, ControlStep, RecordStep, KnownStep DEF IInv
<1> QED
  BY <1>1, <1>2, PTL DEF Spec

\* An end finds the owner of the episode it ends and keeps it.
LEMMA TombstoneKeepsOwnerStep ==
    IInv /\ TombstoneKeepsOwner /\ [Next]_vars => TombstoneKeepsOwner'
<1> SUFFICES ASSUME IInv, TombstoneKeepsOwner, [Next]_vars, NEW s \in Sessions
             PROVE  tombstone'[s] # Unowned
  BY DEF TombstoneKeepsOwner
<1> USE DEF IInv, TypeOK
<1>1. tombstone[s] # Unowned
  BY DEF TombstoneKeepsOwner
<1>2. CASE UNCHANGED <<tombstone, owner>>
  BY <1>1, <1>2
<1>3. ASSUME NEW t \in Threads, BeginDispatch(t)
      PROVE  tombstone'[s] # Unowned
  BY <1>1, <1>3 DEF BeginDispatch
<1>4. ASSUME NEW t \in Threads, MarkEnded(t)
      PROVE  tombstone'[s] # Unowned
  <2>1. CASE sess[t] = s /\ tombstone[s] = Nil
    <3>1. owner[s] \in Owners
      BY <2>1, <1>4 DEF MarkEnded, KnownOK, Known
    <3>2. EpisodeOwner(s) \in Owners
      BY <3>1, OwnersAssumption DEF EpisodeOwner
    <3> QED
      BY <2>1, <3>2, <1>4, OwnersAssumption DEF MarkEnded
  <2>2. CASE ~(sess[t] = s /\ tombstone[s] = Nil)
    BY <1>1, <2>2, <1>4 DEF MarkEnded
  <2> QED
    BY <2>1, <2>2
<1>5. ASSUME NEW t \in Threads, Revive(t)
      PROVE  tombstone'[s] # Unowned
  BY <1>1, <1>5, OwnersAssumption DEF Revive
<1> QED
  BY <1>2, <1>3, <1>4, <1>5, OwnershipSteps

\* No end, however it races with calls, sweeps and revivals, loses the owner of
\* the episode it ends.
THEOREM TombstonesHaveOwners == Spec => []TombstoneKeepsOwner
<1>1. Init => TombstoneKeepsOwner
  BY OwnersAssumption DEF Init, TombstoneKeepsOwner
<1> QED
  BY <1>1, TombstoneKeepsOwnerStep, Inductive, PTL DEF Spec

\* The transport an id belongs to is the only one that can admit, end and revive
\* it: no step takes the id away from it.
THEOREM OwnershipIsForLife == Spec => OwnerIsForLife
<1>1. ASSUME IInv, TombstoneKeepsOwner, [Next]_vars,
             NEW s \in Sessions, NEW o \in Owners, Belongs(s, o)
      PROVE  Belongs(s, o)'
  <2> USE DEF IInv, TypeOK, Belongs
  <2>1. o # Nil /\ o # Unowned /\ tombstone[s] # Unowned
    BY <1>1, OwnersAssumption DEF TombstoneKeepsOwner
  <2>2. owner[s] = Nil \/ tombstone[s] = Nil
    BY <1>1 DEF LiveExcludesEnded
  <2>3. CASE UNCHANGED <<tombstone, owner>>
    BY <1>1, <2>3
  <2>4. ASSUME NEW t \in Threads, BeginDispatch(t)
        PROVE  Belongs(s, o)'
    BY <1>1, <2>1, <2>4 DEF BeginDispatch, DispatchRefused
  <2>5. ASSUME NEW t \in Threads, MarkEnded(t)
        PROVE  Belongs(s, o)'
    BY <1>1, <2>1, <2>2, <2>5 DEF MarkEnded, EpisodeOwner
  <2>6. ASSUME NEW t \in Threads, Revive(t)
        PROVE  Belongs(s, o)'
    BY <1>1, <2>1, <2>6 DEF Revive, ReviveRefused, Foreign
  <2> QED
    BY <1>1, <2>3, <2>4, <2>5, <2>6, OwnershipSteps
<1>2. IInv /\ TombstoneKeepsOwner /\ [Next]_vars =>
        [\A s \in Sessions, o \in Owners : Belongs(s, o) => Belongs(s, o)']_vars
  BY <1>1
<1> QED
  BY <1>2, Inductive, TombstonesHaveOwners, PTL DEF Spec, OwnerIsForLife

-----------------------------------------------------------------------------
(* What an end leaves to a thread, that thread has not forgotten.          *)

\* Only the thread itself leaves the clearing of a scope or a cleanup attempt.
LEMMA PlaceIsKept ==
    ASSUME TypeOK, [Next]_vars, NEW u \in Threads, pc[u] \in {"clear", "hooks"}
    PROVE  \/ pc'[u] = pc[u] /\ sess'[u] = sess[u]
           \/ ClearScope(u) \/ RecordCleanup(u)
<1> DEFINE Kept == \/ pc'[u] = pc[u] /\ sess'[u] = sess[u]
                   \/ ClearScope(u) \/ RecordCleanup(u)
<1> SUFFICES Kept
  OBVIOUS
<1> USE DEF Threads, TypeOK, vars, shared, records, progress, local
<1>1. ASSUME NEW t \in Callers, NEW o \in Owners, CloseTransport(t, o)
      PROVE  Kept
  BY <1>1 DEF CloseTransport, Enter
<1>2. ASSUME NEW t \in Callers, NEW s \in Sessions, NEW o \in Owners, CallTool(t, s, o)
      PROVE  Kept
  BY <1>2 DEF CallTool, Enter
<1>3. ASSUME NEW t \in Callers, NEW s \in Sessions, NEW o \in Owners, EndTool(t, s, o)
      PROVE  Kept
  BY <1>3 DEF EndTool, Enter
<1>4. ASSUME NEW t \in Callers, NEW s \in Sessions, NEW o \in Owners, NEW p \in Policies \cup {"none"}, StartTool(t, s, o, p)
      PROVE  Kept
  BY <1>4 DEF StartTool, Enter
<1>5. ASSUME NEW t \in Threads, RefuseDispatch(t) PROVE Kept
  BY <1>5 DEF RefuseDispatch, Return
<1>6. ASSUME NEW t \in Threads, BeginDispatch(t) PROVE Kept
  BY <1>6 DEF BeginDispatch, Goto
<1>7. ASSUME NEW t \in Threads, BeginTouch(t) PROVE Kept
  BY <1>7 DEF BeginTouch, Goto
<1>8. ASSUME NEW t \in Threads, Escalate(t) PROVE Kept
  BY <1>8 DEF Escalate, Goto
<1>9. ASSUME NEW t \in Threads, DropGuard(t) PROVE Kept
  BY <1>9 DEF DropGuard, Goto, Return
<1>10. ASSUME NEW t \in Threads, MatchTombstone(t) PROVE Kept
  BY <1>10 DEF MatchTombstone, EndRest, Return
<1>11. ASSUME NEW t \in Threads, EnumerateOwned(t) PROVE Kept
  BY <1>11 DEF EnumerateOwned, EndRest, Return
<1>12. ASSUME NEW t \in Threads, EndNext(t) PROVE Kept
  BY <1>12 DEF EndNext, EndRest, Return, DeferEnd
<1>13. ASSUME NEW t \in Threads, MarkEnded(t) PROVE Kept
  BY <1>13 DEF MarkEnded, Goto
<1>14. ASSUME NEW t \in Threads, ClearScope(t) PROVE Kept
  BY <1>14 DEF ClearScope, Goto
<1>15. ASSUME NEW t \in Threads, InitCleanup(t) PROVE Kept
  BY <1>15 DEF InitCleanup, Goto
<1>16. ASSUME NEW t \in Threads, StartCleanup(t) PROVE Kept
  <2>1. CASE t = u
    BY <1>16, <2>1 DEF StartCleanup
  <2>2. CASE t # u
    <3>1. ASSUME NEW c, AfterCleanup(t, c) PROVE Kept
      <4>1. CASE call[t] # "start"
        BY <2>2, <3>1, <4>1 DEF AfterCleanup, EndRest, Return
      <4>2. CASE call[t] = "start" /\ ~c
        BY <2>2, <3>1, <4>2 DEF AfterCleanup, Return
      <4>3. CASE call[t] = "start" /\ c
        BY <2>2, <3>1, <4>3 DEF AfterCleanup
      <4> QED
        BY <4>1, <4>2, <4>3
    <3> QED
      BY <2>2, <3>1, <1>16 DEF StartCleanup
  <2> QED
    BY <2>1, <2>2
<1>17. ASSUME NEW t \in Threads, RunHook(t) PROVE Kept
  BY <1>17 DEF RunHook
<1>18. ASSUME NEW t \in Threads, RecordCleanup(t) PROVE Kept
  <2>1. CASE t = u
    BY <1>18, <2>1 
  <2>2. CASE t # u
    <3>1. ASSUME NEW c, AfterCleanup(t, c) PROVE Kept
      <4>1. CASE call[t] # "start"
        BY <2>2, <3>1, <4>1 DEF AfterCleanup, EndRest, Return
      <4>2. CASE call[t] = "start" /\ ~c
        BY <2>2, <3>1, <4>2 DEF AfterCleanup, Return
      <4>3. CASE call[t] = "start" /\ c
        BY <2>2, <3>1, <4>3 DEF AfterCleanup
      <4> QED
        BY <4>1, <4>2, <4>3
    <3> QED
      BY <2>2, <3>1, <1>18 DEF RecordCleanup
  <2> QED
    BY <2>1, <2>2
<1>19. ASSUME NEW t \in Threads, StartCheck(t) PROVE Kept
  BY <1>19 DEF StartCheck, Goto, Return
<1>20. ASSUME NEW t \in Threads, RefuseRevive(t) PROVE Kept
  BY <1>20 DEF RefuseRevive, Return
<1>21. ASSUME NEW t \in Threads, Revive(t) PROVE Kept
  BY <1>21 DEF Revive, Goto
<1>22. ASSUME NEW t \in Threads, StartTouch(t) PROVE Kept
  BY <1>22 DEF StartTouch, Goto
<1>23. ASSUME NEW t \in Threads, Bind(t) PROVE Kept
  BY <1>23 DEF Bind, Return
<1>24. ASSUME NEW t \in Threads, EscalateLookup(t) PROVE Kept
  BY <1>24 DEF EscalateLookup, Goto
<1>25. ASSUME SweepRecords PROVE Kept
  BY <1>25 DEF SweepRecords, Enter
<1>26. ASSUME SweepActivity PROVE Kept
  BY <1>26 DEF SweepActivity, EndRest, Return
<1>27. ASSUME RevokeAll PROVE Kept
  BY <1>27 DEF RevokeAll, Enter
<1>28. ASSUME RevokeEnumerate PROVE Kept
  BY <1>28 DEF RevokeEnumerate, EndRest, Return
<1>29. ASSUME NEW o \in Owners, Heartbeat(o) PROVE Kept
  BY <1>29 DEF Heartbeat
<1>30. ASSUME NEW s \in Sessions, Expire(s) PROVE Kept
  BY <1>30 DEF Expire
<1>31. CASE UNCHANGED vars
  BY <1>31
<1> HIDE DEF Kept
<1> QED
  BY <1>1, <1>2, <1>3, <1>4, <1>5, <1>6, <1>7, <1>8, <1>9, <1>10,
     <1>11, <1>12, <1>13, <1>14, <1>15, <1>16, <1>17, <1>18, <1>19, <1>20,
     <1>21, <1>22, <1>23, <1>24, <1>25, <1>26, <1>27, <1>28, <1>29, <1>30,
     <1>31
     DEF Next, Proceed, CallerEnters

\* bind_session and escalate_session look for the tombstone under the scope
\* lock, and the thread that leaves the tombstone goes on to clear the scope.
LEMMA EndedScopeIsClearedStep ==
    TypeOK /\ EndedScopeIsCleared /\ [Next]_vars => EndedScopeIsCleared'
<1> SUFFICES ASSUME TypeOK, EndedScopeIsCleared, [Next]_vars,
                    NEW s \in Sessions, tombstone'[s] # Nil, scope'[s] # "none"
             PROVE  \E t \in Threads : pc'[t] = "clear" /\ sess'[t] = s
  BY DEF EndedScopeIsCleared
<1>1. CASE tombstone[s] = Nil
  <2>1. PICK t \in Threads : MarkEnded(t)
    BY <1>1, OwnershipSteps DEF BeginDispatch, Revive, TypeOK
  <2>2. sess[t] = s
    BY <1>1, <2>1 DEF MarkEnded, TypeOK
  <2> QED
    BY <1>1, <2>1, <2>2 DEF MarkEnded, Goto, local, TypeOK
<1>2. CASE tombstone[s] # Nil
  <2>1. scope[s] # "none"
    BY <1>2, ScopeSteps DEF Escalate, ClearScope, Bind, Binds, TypeOK
  <2>2. PICK t \in Threads : pc[t] = "clear" /\ sess[t] = s
    BY <1>2, <2>1 DEF EndedScopeIsCleared
  <2>3. ~ClearScope(t)
    BY <2>2 DEF ClearScope, TypeOK
  <2>4. ~RecordCleanup(t)
    BY <2>2 DEF RecordCleanup
  <2> QED
    BY <2>2, <2>3, <2>4, PlaceIsKept
<1> QED
  BY <1>1, <1>2

\* No late bind or escalation hands the policy of one episode to the next.
THEOREM NoPolicyOutlivesItsEpisode == Spec => []EndedScopeIsCleared
<1>1. Init => EndedScopeIsCleared
  BY DEF Init, EndedScopeIsCleared
<1> QED
  BY <1>1, EndedScopeIsClearedStep, TypeCorrect, PTL DEF Spec

\* The entry is marked by the thread that starts the attempt, and unmarked by
\* whichever attempt of the session ends first.
LEMMA RunningCleanupHasRunnerStep ==
    TypeOK /\ RunningCleanupHasRunner /\ [Next]_vars => RunningCleanupHasRunner'
<1> SUFFICES ASSUME TypeOK, RunningCleanupHasRunner, [Next]_vars,
                    NEW s \in Sessions, cleanup'[s] = "running"
             PROVE  \E t \in Threads : pc'[t] = "hooks" /\ sess'[t] = s
  BY DEF RunningCleanupHasRunner
<1>1. CASE cleanup[s] = "running"
  <2>1. PICK t \in Threads : pc[t] = "hooks" /\ sess[t] = s
    BY <1>1 DEF RunningCleanupHasRunner
  <2>2. ~RecordCleanup(t)
    <3>1. Left(completed[s] \cup won[t]) # "running"
      BY DEF Left
    <3> QED
      BY <1>1, <2>1, <3>1 DEF RecordCleanup, TypeOK
  <2>3. ~ClearScope(t)
    BY <2>1 DEF ClearScope
  <2> QED
    BY <2>1, <2>2, <2>3, PlaceIsKept
<1>2. CASE cleanup[s] # "running"
  <2>1. PICK t \in Threads : StartCleanup(t)
    <3>1. ASSUME NEW t \in Threads, RecordCleanup(t) PROVE FALSE
      <4>1. Left(completed[sess[t]] \cup won[t]) # "running"
        BY DEF Left
      <4>2. \/ cleanup' = cleanup
            \/ cleanup' = [cleanup EXCEPT
                  ![sess[t]] = Left(completed[sess[t]] \cup won[t])]
        BY <3>1 DEF RecordCleanup, progress
      <4> QED
        BY <1>2, <4>1, <4>2 DEF TypeOK
    <3>2. ASSUME NEW t \in Threads, InitCleanup(t) PROVE FALSE
      BY <1>2, <3>2 DEF InitCleanup, TypeOK
    <3> QED
      BY <1>2, <3>1, <3>2, CleanupSteps
  <2>2. sess[t] = s /\ cleanup[s] = "waiting"
    BY <1>2, <2>1 DEF StartCleanup, TypeOK
  <2> QED
    BY <2>1, <2>2 DEF StartCleanup, TypeOK
<1> QED
  BY <1>1, <1>2

\* An entry of the cleanup progress that says running is being run.
THEOREM NoAbandonedCleanup == Spec => []RunningCleanupHasRunner
<1>1. Init => RunningCleanupHasRunner
  BY DEF Init, RunningCleanupHasRunner
<1> QED
  BY <1>1, RunningCleanupHasRunnerStep, TypeCorrect, PTL DEF Spec

=============================================================================
