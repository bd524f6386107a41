------------------------ MODULE SessionSafetyProofs ------------------------
(***************************************************************************)
(* What rests on the invariant of SessionLifecycleProofs. No end is lost:  *)
(* a deferred end has a guard that carries it out, and what a closed       *)
(* connection owns is in the hands of whoever ends it. Both are about the  *)
(* places of threads, so the first lemma says that a step moves one thread *)
(* only. Then the refinement: SessionLifecycle implements the safety part  *)
(* of SessionContract, for any sessions, transports, threads, hooks and    *)
(* policies: of the thirty actions of the lifecycle four change what the   *)
(* contract speaks of, and each is a step of the contract or leaves it     *)
(* alone.                                                                  *)
(***************************************************************************)
EXTENDS SessionRefinement, SessionLifecycleProofs, FiniteSetTheorems

-----------------------------------------------------------------------------
(* A step is the step of one thread.                                       *)

Stays(u) ==
    /\ pc'[u] = pc[u] /\ call'[u] = call[u] /\ sess'[u] = sess[u]
    /\ tran'[u] = tran[u] /\ batch'[u] = batch[u]

OwnStep(u) ==
    \/ CallerEnters(u) \/ Proceed(u) \/ EscalateLookup(u)
    \/ u = Sweeper /\ (SweepRecords \/ SweepActivity)
    \/ u = Operator /\ (RevokeAll \/ RevokeEnumerate)

\* A bulk end, or a cleanup attempt, of one thread leaves the others alone.
LEMMA EndRestLocal ==
    ASSUME TypeOK, NEW t \in Threads, NEW ids, EndRest(t, ids),
           NEW u \in Threads, u # t
    PROVE  Stays(u)
<1> USE DEF TypeOK, Stays
<1>1. CASE ids = {}
  BY <1>1 DEF EndRest, Return
<1>2. CASE ids # {}
  BY <1>2 DEF EndRest
<1> QED
  BY <1>1, <1>2

\* So does a cleanup attempt, whatever comes of it.
LEMMA AfterCleanupLocal ==
    ASSUME TypeOK, NEW t \in Threads, NEW c, AfterCleanup(t, c),
           NEW u \in Threads, u # t
    PROVE  Stays(u)
<1>1. CASE call[t] # "start"
  BY <1>1, EndRestLocal DEF AfterCleanup
<1>2. CASE call[t] = "start" /\ ~c
  BY <1>2 DEF AfterCleanup, Return, TypeOK, Stays
<1>3. CASE call[t] = "start" /\ c
  BY <1>3 DEF AfterCleanup, TypeOK, Stays
<1> QED
  BY <1>1, <1>2, <1>3

\* Entering a handler moves nobody else.
LEMMA EntersLocal ==
    ASSUME TypeOK, NEW t \in Callers, CallerEnters(t), NEW u \in Threads, u # t
    PROVE  Stays(u)
<1> USE DEF TypeOK, Stays, Threads
<1>1. ASSUME NEW o \in Owners, CloseTransport(t, o) PROVE Stays(u)
  BY <1>1 DEF CloseTransport, Enter
<1>2. ASSUME NEW s \in Sessions, NEW o \in Owners, CallTool(t, s, o) PROVE Stays(u)
  BY <1>2 DEF CallTool, Enter
<1>3. ASSUME NEW s \in Sessions, NEW o \in Owners, EndTool(t, s, o) PROVE Stays(u)
  BY <1>3 DEF EndTool, Enter
<1>4. ASSUME NEW s \in Sessions, NEW o \in Owners, NEW p, StartTool(t, s, o, p)
      PROVE  Stays(u)
  BY <1>4 DEF StartTool, Enter
<1> HIDE DEF TypeOK, Stays
<1> QED
  BY <1>1, <1>2, <1>3, <1>4 DEF CallerEnters

\* Inside a handler a thread moves nobody but itself.
LEMMA ProceedLocal ==
    ASSUME TypeOK, NEW t \in Threads, Proceed(t), NEW u \in Threads, u # t
    PROVE  Stays(u)
<1>1. CASE \/ BeginDispatch(t) \/ BeginTouch(t) \/ Escalate(t) \/ MarkEnded(t)
           \/ ClearScope(t) \/ InitCleanup(t) \/ Revive(t) \/ StartTouch(t)
  <2>1. PICK at : Goto(t, at)
    BY <1>1 DEF BeginDispatch, BeginTouch, Escalate, MarkEnded, ClearScope,
                InitCleanup, Revive, StartTouch
  <2> QED
    BY <2>1 DEF Goto, local, TypeOK, Stays
<1>2. CASE RefuseDispatch(t) \/ RefuseRevive(t) \/ Bind(t)
  <2>1. Return(t)
    BY <1>2 DEF RefuseDispatch, RefuseRevive, Bind
  <2> QED
    BY <2>1 DEF Return, TypeOK, Stays
<1>3. CASE DropGuard(t) \/ StartCheck(t)
  <2>1. Return(t) \/ \E at : Goto(t, at)
    BY <1>3 DEF DropGuard, StartCheck
  <2> QED
    BY <2>1 DEF Goto, Return, local, TypeOK, Stays
<1>4. CASE MatchTombstone(t) \/ EnumerateOwned(t)
  <2>1. PICK ids : EndRest(t, ids)
    BY <1>4 DEF MatchTombstone, EnumerateOwned
  <2> QED
    BY <2>1, EndRestLocal
<1>5. CASE EndNext(t)
  <2>1. PICK s \in batch[t] :
          \/ EndRest(t, batch[t] \ {s})
          \/ /\ pc' = [pc EXCEPT ![t] = "mark"]
             /\ sess' = [sess EXCEPT ![t] = s]
             /\ batch' = [batch EXCEPT ![t] = @ \ {s}]
             /\ UNCHANGED <<call, tran>>
    BY <1>5 DEF EndNext
  <2>2. CASE EndRest(t, batch[t] \ {s})
    BY <2>2, EndRestLocal
  <2>3. CASE /\ pc' = [pc EXCEPT ![t] = "mark"]
             /\ sess' = [sess EXCEPT ![t] = s]
             /\ batch' = [batch EXCEPT ![t] = @ \ {s}]
             /\ UNCHANGED <<call, tran>>
    BY <2>3 DEF TypeOK, Stays
  <2> QED
    BY <2>1, <2>2, <2>3
<1>6. CASE StartCleanup(t)
  <2>1. CASE cleanup[sess[t]] = "waiting"
    BY <1>6, <2>1 DEF StartCleanup, TypeOK, Stays
  <2>2. CASE cleanup[sess[t]] # "waiting"
    BY <1>6, <2>2, AfterCleanupLocal DEF StartCleanup
  <2> QED
    BY <2>1, <2>2
<1>7. CASE RunHook(t)
  BY <1>7 DEF RunHook, Stays
<1>8. CASE RecordCleanup(t)
  BY <1>8, AfterCleanupLocal DEF RecordCleanup
<1> QED
  BY <1>1, <1>2, <1>3, <1>4, <1>5, <1>6, <1>7, <1>8 DEF Proceed

\* A thread stays where it is unless the step is its own.
LEMMA OneThreadMoves ==
    ASSUME TypeOK, [Next]_vars, NEW u \in Threads
    PROVE  Stays(u) \/ OwnStep(u)
<1> DEFINE Goal == Stays(u) \/ OwnStep(u)
<1>1. ASSUME NEW t \in Callers, CallerEnters(t) PROVE Goal
  BY <1>1, EntersLocal DEF OwnStep
<1>2. ASSUME NEW t \in Threads, Proceed(t) PROVE Goal
  BY <1>2, ProceedLocal DEF OwnStep
<1>3. ASSUME NEW t \in Threads, EscalateLookup(t) PROVE Goal
  BY <1>3 DEF EscalateLookup, Goto, local, TypeOK, Stays, OwnStep
<1>4. Sweeper \in Threads /\ Operator \in Threads
  BY DEF Threads
<1>5. ASSUME SweepRecords PROVE Goal
  BY <1>4, <1>5 DEF SweepRecords, Enter, TypeOK, Stays, OwnStep
<1>6. ASSUME SweepActivity PROVE Goal
  BY <1>4, <1>6, EndRestLocal DEF SweepActivity, OwnStep
<1>7. ASSUME RevokeAll PROVE Goal
  BY <1>4, <1>7 DEF RevokeAll, Enter, TypeOK, Stays, OwnStep
<1>8. ASSUME RevokeEnumerate PROVE Goal
  BY <1>4, <1>8, EndRestLocal DEF RevokeEnumerate, OwnStep
<1>9. ASSUME UNCHANGED <<pc, local>> PROVE Goal
  BY <1>9 DEF local, Stays
<1>10. ASSUME NEW o \in Owners, Heartbeat(o) PROVE Goal
  BY <1>9, <1>10 DEF Heartbeat
<1>11. ASSUME NEW s \in Sessions, Expire(s) PROVE Goal
  BY <1>9, <1>11 DEF Expire
<1>12. ASSUME UNCHANGED vars PROVE Goal
  BY <1>9, <1>12 DEF vars
<1> HIDE DEF Goal
<1>13. Goal
  BY <1>1, <1>2, <1>3, <1>5, <1>6, <1>7, <1>8, <1>10, <1>11, <1>12 DEF Next
<1> QED
  BY <1>13 DEF Goal

-----------------------------------------------------------------------------
(* A deferred end has a guard.                                             *)

GuardPlaces == {"begin_touch", "guarded", "escalating", "escalated"}

\* The calls in flight are counted, and an end is deferred, in four places.
LEMMA CounterSteps ==
    ASSUME TypeOK, [Next]_vars
    PROVE  \/ UNCHANGED <<inFlight, pendingEnd>>
           \/ \E t \in Threads : \/ BeginDispatch(t) \/ DropGuard(t)
                                 \/ EndNext(t) \/ MarkEnded(t)
<1> DEFINE Same == UNCHANGED <<inFlight, pendingEnd>>
           Counts(t) == BeginDispatch(t) \/ DropGuard(t) \/ EndNext(t) \/ MarkEnded(t)
<1> USE DEF shared, records
<1>1. ASSUME NEW t \in Callers, CallerEnters(t) PROVE Same
  <2>1. ASSUME NEW s, NEW o, CallTool(t, s, o) \/ EndTool(t, s, o) PROVE Same
    BY <2>1 DEF CallTool, EndTool
  <2>2. ASSUME NEW s, NEW o, NEW p, StartTool(t, s, o, p) PROVE Same
    BY <2>2 DEF StartTool
  <2>3. ASSUME NEW o, CloseTransport(t, o) PROVE Same
    BY <2>3 DEF CloseTransport
  <2> QED
    BY <1>1, <2>1, <2>2, <2>3 DEF CallerEnters
<1>2. ASSUME NEW t \in Threads, Proceed(t) PROVE Same \/ Counts(t)
  <2>1. CASE \/ RefuseDispatch(t) \/ MatchTombstone(t) \/ EnumerateOwned(t)
             \/ RunHook(t) \/ StartCheck(t) \/ RefuseRevive(t)
    BY <2>1 DEF RefuseDispatch, MatchTombstone, EnumerateOwned, RunHook,
                StartCheck, RefuseRevive
  <2>2. CASE \/ BeginTouch(t) \/ Escalate(t) \/ ClearScope(t) \/ InitCleanup(t)
    BY <2>2 DEF BeginTouch, Escalate, ClearScope, InitCleanup
  <2>3. CASE \/ StartCleanup(t) \/ RecordCleanup(t) \/ Revive(t)
             \/ StartTouch(t) \/ Bind(t)
    BY <2>3 DEF StartCleanup, RecordCleanup, Revive, StartTouch, Bind
  <2> QED
    BY <1>2, <2>1, <2>2, <2>3 DEF Proceed
<1>3. ASSUME NEW t, EscalateLookup(t) PROVE Same
  BY <1>3 DEF EscalateLookup
<1>4. ASSUME SweepRecords \/ SweepActivity \/ RevokeAll \/ RevokeEnumerate
      PROVE  Same
  BY <1>4 DEF SweepRecords, SweepActivity, RevokeAll, RevokeEnumerate
<1>5. ASSUME NEW o, Heartbeat(o) PROVE Same
  BY <1>5 DEF Heartbeat
<1>6. ASSUME NEW s, Expire(s) PROVE Same
  BY <1>6 DEF Expire
<1>7. ASSUME UNCHANGED vars PROVE Same
  BY <1>7 DEF vars
<1> HIDE DEF Same, Counts
<1>8. Same \/ \E t \in Threads : Counts(t)
  BY <1>1, <1>2, <1>3, <1>4, <1>5, <1>6, <1>7 DEF Next
<1> QED
  BY <1>8 DEF Same, Counts

\* A thread keeps its guard, through the tool and its escalation, until it
\* drops it.
LEMMA GuardIsKept ==
    ASSUME TypeOK, [Next]_vars, NEW u \in Threads, pc[u] \in GuardPlaces
    PROVE  \/ pc'[u] \in GuardPlaces /\ sess'[u] = sess[u]
           \/ DropGuard(u)
<1> DEFINE Kept == pc'[u] \in GuardPlaces /\ sess'[u] = sess[u]
<1>1. CASE Stays(u)
  BY <1>1 DEF Stays
<1>2. CASE OwnStep(u)
  <2>1. CASE BeginTouch(u) \/ Escalate(u) \/ EscalateLookup(u)
    BY <2>1 DEF BeginTouch, Escalate, EscalateLookup, Goto, local, TypeOK, GuardPlaces
  <2>2. ~CallerEnters(u)
    BY DEF CallerEnters, CloseTransport, CallTool, EndTool, StartTool, Enter, GuardPlaces
  <2>3. ~(u = Sweeper /\ (SweepRecords \/ SweepActivity))
    BY DEF SweepRecords, SweepActivity, Enter, GuardPlaces
  <2>4. ~(u = Operator /\ (RevokeAll \/ RevokeEnumerate))
    BY DEF RevokeAll, RevokeEnumerate, Enter, GuardPlaces
  <2>5. ~ (\/ RefuseDispatch(u) \/ BeginDispatch(u) \/ MatchTombstone(u)
           \/ EnumerateOwned(u) \/ EndNext(u) \/ MarkEnded(u) \/ ClearScope(u)
           \/ InitCleanup(u))
    BY DEF RefuseDispatch, BeginDispatch, MatchTombstone, EnumerateOwned, EndNext,
           MarkEnded, ClearScope, InitCleanup, GuardPlaces
  <2>6. ~ (\/ StartCleanup(u) \/ RunHook(u) \/ RecordCleanup(u) \/ StartCheck(u)
           \/ RefuseRevive(u) \/ Revive(u) \/ StartTouch(u) \/ Bind(u))
    BY DEF StartCleanup, RunHook, RecordCleanup, StartCheck, RefuseRevive, Revive,
           StartTouch, Bind, GuardPlaces
  <2> QED
    BY <1>2, <2>1, <2>2, <2>3, <2>4, <2>5, <2>6 DEF OwnStep, Proceed
<1> QED
  BY <1>1, <1>2, OneThreadMoves

\* There are finitely many threads, so guards can be counted.
LEMMA GuardsAreFinite ==
    ASSUME NEW s
    PROVE  IsFiniteSet(Guards(s)) /\ Cardinality(Guards(s)) \in Nat
<1>1. IsFiniteSet({Sweeper}) /\ IsFiniteSet({Operator})
  BY FS_Singleton
<1>2. {Sweeper, Operator} = {Sweeper} \cup {Operator}
  OBVIOUS
<1>3. IsFiniteSet({Sweeper, Operator})
  BY <1>1, <1>2, FS_Union
<1>4. IsFiniteSet(Threads)
  BY <1>3, ThreadsAssumption, FS_Union DEF Threads
<1>5. Guards(s) \in SUBSET Threads
  BY DEF Guards
<1>6. IsFiniteSet(Guards(s))
  BY <1>4, <1>5, FS_Subset
<1> QED
  BY <1>6, FS_CardinalityType

\* A step that drops no guard of session s leaves s no fewer of them; a step
\* that drops one leaves it exactly one fewer.
LEMMA GuardSteps ==
    ASSUME TypeOK, [Next]_vars, NEW s
    PROVE  /\ (\A t \in Guards(s) : ~DropGuard(t)) => Guards(s) \subseteq Guards(s)'
           /\ \A t \in Guards(s) : DropGuard(t) => Guards(s) \ {t} \subseteq Guards(s)'
<1>1. \A u \in Guards(s) : DropGuard(u) \/ u \in Guards(s)'
  BY GuardIsKept DEF Guards, GuardPlaces
<1>2. ASSUME NEW t \in Guards(s), DropGuard(t), NEW u \in Guards(s), u # t
      PROVE  u \in Guards(s)'
  <2>1. t \in Threads /\ u \in Threads
    BY DEF Guards
  <2>2. Stays(u)
    BY <1>2, <2>1, ProceedLocal DEF Proceed
  <2> QED
    BY <2>1, <2>2 DEF Stays, Guards
<1> QED
  BY <1>1, <1>2

\* The part of the invariant that speaks of one session.
GuardedEnd(s) ==
    /\ inFlight[s] <= Cardinality(Guards(s))
    /\ pendingEnd[s] => inFlight[s] > 0

\* Whoever drops a guard counts it out; if it was the last one counted, it takes
\* the end with it.
LEMMA DropGuardKeepsEnd ==
    ASSUME IInv, [Next]_vars, NEW t \in Threads, DropGuard(t),
           NEW s \in Sessions, s = sess[t], GuardedEnd(s)
    PROVE  GuardedEnd(s)'
<1> USE DEF IInv, TypeOK
<1>1. t \in Guards(s)
  BY DEF DropGuard, Guards
<1>2. Guards(s) \ {t} \subseteq Guards(s)'
  BY <1>1, GuardSteps
<1>3. /\ IsFiniteSet(Guards(s)) /\ Cardinality(Guards(s)) \in Nat
      /\ IsFiniteSet(Guards(s)') /\ Cardinality(Guards(s)') \in Nat
  <2>1. IsFiniteSet(Guards(s)) /\ Cardinality(Guards(s)) \in Nat
    BY GuardsAreFinite
  <2>2. (IsFiniteSet(Guards(s)) /\ Cardinality(Guards(s)) \in Nat)'
    BY <2>1, GuardsAreFinite, PTL
  <2> QED
    BY <2>1, <2>2
<1>4. CASE owner[s] = Nil
  <2>1. inFlight[s] = 0 /\ ~pendingEnd[s]
    BY <1>4 DEF RecordOK
  <2>2. inFlight' = inFlight /\ pendingEnd' = pendingEnd
    BY <1>4 DEF DropGuard, records
  <2> QED
    BY <1>3, <2>1, <2>2 DEF GuardedEnd
<1>5. CASE owner[s] # Nil
  <2>1. PICK n \in Nat : n = inFlight[s]
    OBVIOUS
  <2>2. inFlight'[s] = LeftAfter(n)
    BY <1>5, <2>1 DEF DropGuard
  <2>3. pendingEnd'[s] <=> pendingEnd[s] /\ ~TakesEnd(s, LeftAfter(n))
    BY <1>5, <2>1 DEF DropGuard
  <2>4. Cardinality(Guards(s)) - 1 <= Cardinality(Guards(s)')
    <3>1. /\ IsFiniteSet(Guards(s) \ {t})
          /\ Cardinality(Guards(s) \ {t}) = Cardinality(Guards(s)) - 1
      BY <1>1, <1>3, FS_RemoveElement
    <3>2. Cardinality(Guards(s) \ {t}) <= Cardinality(Guards(s)')
      BY <1>2, <1>3, FS_Subset
    <3> QED
      BY <3>1, <3>2
  <2>5. inFlight'[s] <= Cardinality(Guards(s)')
    BY <1>3, <2>1, <2>2, <2>4 DEF LeftAfter, GuardedEnd
  <2>6. pendingEnd'[s] => inFlight'[s] > 0
    BY <2>1, <2>2, <2>3 DEF LeftAfter, TakesEnd
  <2> QED
    BY <2>5, <2>6 DEF GuardedEnd
<1> QED
  BY <1>4, <1>5

\* An end is deferred only behind a call in flight, and every call in flight has
\* a guard.
LEMMA GuardedEndStep ==
    ASSUME IInv, [Next]_vars, NEW s \in Sessions, GuardedEnd(s)
    PROVE  GuardedEnd(s)'
<1> USE DEF IInv, TypeOK
<1>1. /\ IsFiniteSet(Guards(s)) /\ Cardinality(Guards(s)) \in Nat
      /\ IsFiniteSet(Guards(s)') /\ Cardinality(Guards(s)') \in Nat
  <2>1. IsFiniteSet(Guards(s)) /\ Cardinality(Guards(s)) \in Nat
    BY GuardsAreFinite
  <2>2. (IsFiniteSet(Guards(s)) /\ Cardinality(Guards(s)) \in Nat)'
    BY <2>1, GuardsAreFinite, PTL
  <2> QED
    BY <2>1, <2>2
<1>2. ASSUME NEW t \in Guards(s), DropGuard(t)
      PROVE  GuardedEnd(s)'
  <2>1. t \in Threads /\ s = sess[t]
    BY <1>2 DEF Guards
  <2> QED
    BY <1>2, <2>1, DropGuardKeepsEnd
<1>3. ASSUME \A t \in Guards(s) : ~DropGuard(t)
      PROVE  GuardedEnd(s)'
  <2>1. Guards(s) \subseteq Guards(s)'
    BY <1>3, GuardSteps
  <2>2. Cardinality(Guards(s)) <= Cardinality(Guards(s)')
    BY <1>1, <2>1, FS_Subset
  <2>3. CASE UNCHANGED <<inFlight, pendingEnd>>
    BY <1>1, <2>2, <2>3 DEF GuardedEnd
  <2>4. ASSUME NEW t \in Threads, BeginDispatch(t) PROVE GuardedEnd(s)'
    <3>1. CASE sess[t] = s
      <4>1. t \notin Guards(s) /\ t \in Guards(s)'
        BY <2>4, <3>1 DEF BeginDispatch, Goto, local, Guards
      <4>2. /\ IsFiniteSet(Guards(s) \cup {t})
            /\ Cardinality(Guards(s) \cup {t}) = Cardinality(Guards(s)) + 1
        BY <1>1, <4>1, FS_AddElement
      <4>3. Guards(s) \cup {t} \subseteq Guards(s)'
        BY <2>1, <4>1
      <4>4. Cardinality(Guards(s)) + 1 <= Cardinality(Guards(s)')
        BY <1>1, <4>2, <4>3, FS_Subset
      <4>5. inFlight'[s] = inFlight[s] + 1 /\ pendingEnd' = pendingEnd
        BY <2>4, <3>1 DEF BeginDispatch
      <4> QED
        BY <1>1, <4>4, <4>5 DEF GuardedEnd
    <3>2. CASE sess[t] # s
      <4>1. inFlight'[s] = inFlight[s] /\ pendingEnd' = pendingEnd
        BY <2>4, <3>2 DEF BeginDispatch
      <4> QED
        BY <1>1, <2>2, <4>1 DEF GuardedEnd
    <3> QED
      BY <3>1, <3>2
  <2>5. ASSUME NEW t \in Threads, DropGuard(t) PROVE GuardedEnd(s)'
    <3>1. sess[t] # s
      BY <1>3, <2>5 DEF DropGuard, Guards
    <3>2. inFlight'[s] = inFlight[s] /\ pendingEnd'[s] = pendingEnd[s]
      BY <2>5, <3>1 DEF DropGuard, records
    <3> QED
      BY <1>1, <2>2, <3>2 DEF GuardedEnd
  <2>6. ASSUME NEW t \in Threads, EndNext(t) PROVE GuardedEnd(s)'
    <3>1. inFlight' = inFlight
      BY <2>6 DEF EndNext
    <3>2. pendingEnd'[s] => pendingEnd[s] \/ inFlight[s] > 0
      BY <2>6 DEF EndNext, DeferEnd
    <3> QED
      BY <1>1, <2>2, <3>1, <3>2 DEF GuardedEnd
  <2>7. ASSUME NEW t \in Threads, MarkEnded(t) PROVE GuardedEnd(s)'
    <3>1. CASE sess[t] = s
      <4>1. inFlight'[s] = 0 /\ ~pendingEnd'[s]
        BY <2>7, <3>1 DEF MarkEnded
      <4> QED
        BY <1>1, <4>1 DEF GuardedEnd
    <3>2. CASE sess[t] # s
      <4>1. inFlight'[s] = inFlight[s] /\ pendingEnd'[s] = pendingEnd[s]
        BY <2>7, <3>2 DEF MarkEnded
      <4> QED
        BY <1>1, <2>2, <4>1 DEF GuardedEnd
    <3> QED
      BY <3>1, <3>2
  <2> QED
    BY <2>3, <2>4, <2>5, <2>6, <2>7, CounterSteps
<1> QED
  BY <1>2, <1>3

\* A deferred end is carried out by somebody: the session whose end waits has a
\* SessionDispatchGuard alive, whatever earlier episodes of its id left behind.
THEOREM DeferredEndHasCarrier == Spec => []PendingEndHasGuard
<1>1. Init => PendingEndHasGuard
  <2>1. \A s : Cardinality(Guards(s)) \in Nat
    BY GuardsAreFinite
  <2> QED
    BY <2>1 DEF Init, PendingEndHasGuard
<1>2. IInv /\ PendingEndHasGuard /\ [Next]_vars => PendingEndHasGuard'
  BY GuardedEndStep DEF PendingEndHasGuard, GuardedEnd
<1> QED
  BY <1>1, <1>2, Inductive, PTL DEF Spec

-----------------------------------------------------------------------------
(* What a closed connection owns is being ended.                           *)

\* A thread with ids left to end is ending them, and was not asked to start a
\* session: it goes on with its list after a cleanup attempt.
EndingPlaces == {"sweep", "ending", "mark", "clear", "init", "retry", "hooks"}
Listed(t) == batch[t] # {} => pc[t] \in EndingPlaces /\ call[t] # "start"

\* A bulk end clears its list with its locals.
LEMMA EndRestListed ==
    ASSUME TypeOK, NEW t \in Threads, NEW ids, EndRest(t, ids), call[t] # "start"
    PROVE  Listed(t)'
BY DEF EndRest, Return, TypeOK, Listed, EndingPlaces

\* Only an attempt on behalf of start_session leaves the ending places, and it
\* has no list.
LEMMA AfterCleanupListed ==
    ASSUME TypeOK, NEW t \in Threads, NEW c, AfterCleanup(t, c), Listed(t)
    PROVE  Listed(t)'
<1>1. CASE call[t] # "start"
  BY <1>1, EndRestListed DEF AfterCleanup
<1>2. CASE call[t] = "start" /\ ~c
  BY <1>2 DEF AfterCleanup, Return, TypeOK, Listed
<1>3. CASE call[t] = "start" /\ c
  BY <1>3 DEF AfterCleanup, TypeOK, Listed
<1> QED
  BY <1>1, <1>2, <1>3

\* No step leaves a list behind.
LEMMA ListedStep ==
    ASSUME IInv, [Next]_vars, NEW u \in Threads, Listed(u)
    PROVE  Listed(u)'
<1> USE DEF IInv
<1>1. CASE Stays(u)
  BY <1>1 DEF Stays, Listed
<1>2. ASSUME CallerEnters(u) PROVE Listed(u)'
  BY <1>2 DEF CallerEnters, CloseTransport, CallTool, EndTool, StartTool, Enter,
              TypeOK, Listed, EndingPlaces
<1>3. ASSUME u = Sweeper, SweepRecords \/ SweepActivity PROVE Listed(u)'
  <2>1. CASE SweepRecords
    BY <1>3, <2>1 DEF SweepRecords, Enter, TypeOK, Listed, EndingPlaces
  <2>2. CASE SweepActivity
    BY <1>3, <2>2, EndRestListed DEF SweepActivity, ControlOK
  <2> QED
    BY <1>3, <2>1, <2>2
<1>4. ASSUME u = Operator, RevokeAll \/ RevokeEnumerate PROVE Listed(u)'
  <2>1. CASE RevokeAll
    BY <1>4, <2>1 DEF RevokeAll, Enter, TypeOK, Listed, EndingPlaces
  <2>2. CASE RevokeEnumerate
    BY <1>4, <2>2, EndRestListed DEF RevokeEnumerate, ControlOK
  <2> QED
    BY <1>4, <2>1, <2>2
<1>5. ASSUME MatchTombstone(u) \/ EnumerateOwned(u) PROVE Listed(u)'
  BY <1>5, EndRestListed DEF MatchTombstone, EnumerateOwned, ControlOK
<1>6. ASSUME EndNext(u) PROVE Listed(u)'
  <2>1. call[u] # "start"
    BY <1>6 DEF EndNext, ControlOK
  <2>2. PICK s \in batch[u] :
          \/ EndRest(u, batch[u] \ {s})
          \/ /\ pc' = [pc EXCEPT ![u] = "mark"]
             /\ UNCHANGED call
    BY <1>6 DEF EndNext
  <2>3. CASE EndRest(u, batch[u] \ {s})
    BY <2>1, <2>3, EndRestListed
  <2>4. CASE pc' = [pc EXCEPT ![u] = "mark"] /\ UNCHANGED call
    BY <2>1, <2>4 DEF TypeOK, Listed, EndingPlaces
  <2> QED
    BY <2>2, <2>3, <2>4
<1>7. ASSUME StartCleanup(u) PROVE Listed(u)'
  <2>1. CASE cleanup[sess[u]] = "waiting"
    BY <1>7, <2>1 DEF StartCleanup, TypeOK, Listed, EndingPlaces
  <2>2. CASE cleanup[sess[u]] # "waiting"
    BY <1>7, <2>2, AfterCleanupListed DEF StartCleanup
  <2> QED
    BY <2>1, <2>2
<1>8. ASSUME RecordCleanup(u) PROVE Listed(u)'
  BY <1>8, AfterCleanupListed DEF RecordCleanup
<1>9. ASSUME RunHook(u) PROVE Listed(u)'
  BY <1>9 DEF RunHook, Listed
<1>10. ASSUME MarkEnded(u) \/ ClearScope(u) \/ InitCleanup(u) PROVE Listed(u)'
  BY <1>10 DEF MarkEnded, ClearScope, InitCleanup, Goto, local, TypeOK, Listed,
               EndingPlaces
<1>11. ASSUME \/ BeginDispatch(u) \/ BeginTouch(u) \/ Escalate(u) \/ EscalateLookup(u)
              \/ Revive(u) \/ StartTouch(u)
       PROVE  Listed(u)'
  BY <1>11 DEF BeginDispatch, BeginTouch, Escalate, EscalateLookup, Revive,
               StartTouch, Goto, local, TypeOK, Listed, EndingPlaces
<1>12. ASSUME RefuseDispatch(u) \/ RefuseRevive(u) \/ Bind(u) PROVE Listed(u)'
  <2>1. Return(u)
    BY <1>12 DEF RefuseDispatch, RefuseRevive, Bind
  <2> QED
    BY <2>1 DEF Return, TypeOK, Listed
<1>13. ASSUME DropGuard(u) \/ StartCheck(u) PROVE Listed(u)'
  <2>1. pc[u] \notin EndingPlaces
    BY <1>13 DEF DropGuard, StartCheck, EndingPlaces
  <2>2. batch'[u] = {}
    <3>1. Return(u) \/ \E at : Goto(u, at)
      BY <1>13 DEF DropGuard, StartCheck
    <3> QED
      BY <2>1, <3>1 DEF Goto, Return, local, TypeOK, Listed
  <2> QED
    BY <2>2 DEF Listed
<1> QED
  BY <1>1, <1>2, <1>3, <1>4, <1>5, <1>6, <1>7, <1>8, <1>9, <1>10, <1>11, <1>12,
     <1>13, OneThreadMoves DEF OwnStep, Proceed

\* Thread t has the end of session s, which transport o owns, in its hands.
Ends(t, s, o) ==
    \/ pc[t] = "enumerate" /\ tran[t] = o
    \/ s \in batch[t] /\ pc[t] # "sweep"
    \/ pc[t] = "mark" /\ sess[t] = s

\* A list goes on with what is left of it.
LEMMA EndRestEnds ==
    ASSUME TypeOK, NEW t \in Threads, NEW ids, EndRest(t, ids),
           NEW s \in ids, NEW o
    PROVE  Ends(t, s, o)'
BY DEF EndRest, TypeOK, Ends

\* A cleanup attempt comes back to the list it was part of.
LEMMA AfterCleanupEnds ==
    ASSUME TypeOK, NEW t \in Threads, NEW c, AfterCleanup(t, c),
           NEW s \in batch[t], NEW o, call[t] # "start"
    PROVE  Ends(t, s, o)'
BY EndRestEnds DEF AfterCleanup

\* Whoever has an end in its hands keeps it there, defers it to a guard, or has
\* ended the session.
LEMMA EndsIsKept ==
    ASSUME IInv, [Next]_vars, NEW u \in Threads, Listed(u),
           NEW s \in Sessions, NEW o \in Owners, owner[s] = o, owner'[s] = o,
           Ends(u, s, o)
    PROVE  Ends(u, s, o)' \/ pendingEnd'[s]
<1> USE DEF IInv
<1>0. o # Nil
  BY OwnersAssumption
<1>1. CASE Stays(u)
  BY <1>1 DEF Stays, Ends
<1>2. ASSUME OwnStep(u), pc[u] = "enumerate", tran[u] = o
      PROVE  Ends(u, s, o)'
  <2>1. EnumerateOwned(u)
    <3>1. ~CallerEnters(u) /\ ~EscalateLookup(u)
      BY <1>2 DEF CallerEnters, CloseTransport, CallTool, EndTool, StartTool, Enter,
                  EscalateLookup
    <3>2. /\ ~(u = Sweeper /\ (SweepRecords \/ SweepActivity))
          /\ ~(u = Operator /\ (RevokeAll \/ RevokeEnumerate))
      BY <1>2 DEF SweepRecords, SweepActivity, RevokeAll, RevokeEnumerate, Enter
    <3>3. ~ (\/ RefuseDispatch(u) \/ BeginDispatch(u) \/ BeginTouch(u) \/ Escalate(u)
             \/ DropGuard(u) \/ MatchTombstone(u) \/ EndNext(u) \/ MarkEnded(u)
             \/ ClearScope(u) \/ InitCleanup(u))
      BY <1>2 DEF RefuseDispatch, BeginDispatch, BeginTouch, Escalate, DropGuard,
                  MatchTombstone, EndNext, MarkEnded, ClearScope, InitCleanup
    <3>4. ~ (\/ StartCleanup(u) \/ RunHook(u) \/ RecordCleanup(u) \/ StartCheck(u)
             \/ RefuseRevive(u) \/ Revive(u) \/ StartTouch(u) \/ Bind(u))
      BY <1>2 DEF StartCleanup, RunHook, RecordCleanup, StartCheck, RefuseRevive,
                  Revive, StartTouch, Bind
    <3> QED
      BY <1>2, <3>1, <3>2, <3>3, <3>4 DEF OwnStep, Proceed
  <2>2. PICK ids : EndRest(u, ids) /\ s \in ids
    BY <1>2, <2>1 DEF EnumerateOwned
  <2> QED
    BY <2>2, EndRestEnds
<1>3. ASSUME OwnStep(u), pc[u] = "mark", sess[u] = s
      PROVE  FALSE
  <2>1. MarkEnded(u)
    <3>1. ~CallerEnters(u) /\ ~EscalateLookup(u)
      BY <1>3 DEF CallerEnters, CloseTransport, CallTool, EndTool, StartTool, Enter,
                  EscalateLookup
    <3>2. /\ ~(u = Sweeper /\ (SweepRecords \/ SweepActivity))
          /\ ~(u = Operator /\ (RevokeAll \/ RevokeEnumerate))
      BY <1>3 DEF SweepRecords, SweepActivity, RevokeAll, RevokeEnumerate, Enter
    <3>3. ~ (\/ RefuseDispatch(u) \/ BeginDispatch(u) \/ BeginTouch(u) \/ Escalate(u)
             \/ DropGuard(u) \/ MatchTombstone(u) \/ EnumerateOwned(u) \/ EndNext(u)
             \/ ClearScope(u) \/ InitCleanup(u))
      BY <1>3 DEF RefuseDispatch, BeginDispatch, BeginTouch, Escalate, DropGuard,
                  MatchTombstone, EnumerateOwned, EndNext, ClearScope, InitCleanup
    <3>4. ~ (\/ StartCleanup(u) \/ RunHook(u) \/ RecordCleanup(u) \/ StartCheck(u)
             \/ RefuseRevive(u) \/ Revive(u) \/ StartTouch(u) \/ Bind(u))
      BY <1>3 DEF StartCleanup, RunHook, RecordCleanup, StartCheck, RefuseRevive,
                  Revive, StartTouch, Bind
    <3> QED
      BY <1>3, <3>1, <3>2, <3>3, <3>4 DEF OwnStep, Proceed
  <2>2. owner'[s] = Nil
    BY <1>3, <2>1 DEF MarkEnded, TypeOK
  <2> QED
    BY <1>0, <2>2
<1>4. ASSUME OwnStep(u), s \in batch[u], pc[u] # "sweep"
      PROVE  Ends(u, s, o)' \/ pendingEnd'[s]
  <2>0. pc[u] \in EndingPlaces \ {"sweep"} /\ call[u] # "start"
    BY <1>4 DEF Listed
  <2>1. CASE EndNext(u)
    <3>1. PICK x \in batch[u] :
            \/ DeferEnd(x) /\ EndRest(u, batch[u] \ {x})
            \/ /\ pc' = [pc EXCEPT ![u] = "mark"]
               /\ sess' = [sess EXCEPT ![u] = x]
               /\ batch' = [batch EXCEPT ![u] = @ \ {x}]
      BY <2>1 DEF EndNext
    <3>2. CASE DeferEnd(x) /\ EndRest(u, batch[u] \ {x})
      <4>1. CASE s = x
        BY <3>2, <4>1 DEF DeferEnd, TypeOK
      <4>2. CASE s # x
        <5>1. s \in batch[u] \ {x}
          BY <1>4, <4>2
        <5> QED
          BY <3>2, <5>1, EndRestEnds
      <4> QED
        BY <4>1, <4>2
    <3>3. CASE /\ pc' = [pc EXCEPT ![u] = "mark"]
               /\ sess' = [sess EXCEPT ![u] = x]
               /\ batch' = [batch EXCEPT ![u] = @ \ {x}]
      BY <1>4, <3>3 DEF TypeOK, Ends
    <3> QED
      BY <3>1, <3>2, <3>3
  <2>2. CASE MarkEnded(u) \/ ClearScope(u) \/ InitCleanup(u)
    BY <1>4, <2>2 DEF MarkEnded, ClearScope, InitCleanup, Goto, local, TypeOK, Ends
  <2>3. CASE StartCleanup(u)
    <3>1. CASE cleanup[sess[u]] = "waiting"
      BY <1>4, <2>3, <3>1 DEF StartCleanup, TypeOK, Ends
    <3>2. CASE cleanup[sess[u]] # "waiting"
      BY <1>4, <2>0, <2>3, <3>2, AfterCleanupEnds DEF StartCleanup
    <3> QED
      BY <3>1, <3>2
  <2>4. CASE RunHook(u)
    BY <1>4, <2>4 DEF RunHook, Ends
  <2>5. CASE RecordCleanup(u)
    BY <1>4, <2>0, <2>5, AfterCleanupEnds DEF RecordCleanup
  <2>6. ~CallerEnters(u) /\ ~EscalateLookup(u)
    BY <2>0 DEF CallerEnters, CloseTransport, CallTool, EndTool, StartTool, Enter,
                EscalateLookup, EndingPlaces
  <2>7. /\ ~(u = Sweeper /\ (SweepRecords \/ SweepActivity))
        /\ ~(u = Operator /\ (RevokeAll \/ RevokeEnumerate))
    BY <2>0 DEF SweepRecords, SweepActivity, RevokeAll, RevokeEnumerate, Enter,
                EndingPlaces
  <2>8. ~ (\/ RefuseDispatch(u) \/ BeginDispatch(u) \/ BeginTouch(u) \/ Escalate(u)
           \/ DropGuard(u) \/ MatchTombstone(u) \/ EnumerateOwned(u))
    BY <2>0 DEF RefuseDispatch, BeginDispatch, BeginTouch, Escalate, DropGuard,
                MatchTombstone, EnumerateOwned, EndingPlaces
  <2>9. ~ (\/ StartCheck(u) \/ RefuseRevive(u) \/ Revive(u) \/ StartTouch(u)
           \/ Bind(u))
    BY <2>0 DEF StartCheck, RefuseRevive, Revive, StartTouch, Bind, EndingPlaces
  <2> QED
    BY <1>4, <2>1, <2>2, <2>3, <2>4, <2>5, <2>6, <2>7, <2>8, <2>9
       DEF OwnStep, Proceed
<1> QED
  BY <1>1, <1>2, <1>3, <1>4, OneThreadMoves DEF Ends

\* A deferred end stays with the record until the last guard takes it out, to
\* mark the session itself.
LEMMA DeferralIsKept ==
    ASSUME IInv, [Next]_vars, NEW s \in Sessions, NEW o \in Owners,
           owner'[s] = o, pendingEnd[s]
    PROVE  pendingEnd'[s] \/ \E t \in Threads : Ends(t, s, o)'
<1> USE DEF IInv
<1>0. o # Nil
  BY OwnersAssumption
<1>1. ASSUME NEW t \in Threads, BeginDispatch(t) \/ EndNext(t)
      PROVE  pendingEnd'[s]
  <2>1. CASE BeginDispatch(t)
    BY <2>1 DEF BeginDispatch
  <2>2. CASE EndNext(t)
    <3>1. pendingEnd' = pendingEnd \/ \E x : DeferEnd(x)
      BY <2>2 DEF EndNext
    <3> QED
      BY <3>1 DEF DeferEnd, TypeOK
  <2> QED
    BY <1>1, <2>1, <2>2
<1>2. ASSUME NEW t \in Threads, MarkEnded(t)
      PROVE  pendingEnd'[s]
  <2>1. sess[t] # s
    BY <1>0, <1>2 DEF MarkEnded, TypeOK
  <2> QED
    BY <1>2, <2>1 DEF MarkEnded
<1>3. ASSUME NEW t \in Threads, DropGuard(t)
      PROVE  pendingEnd'[s] \/ Ends(t, s, o)'
  <2>1. PICK takes \in BOOLEAN :
          /\ takes <=> TakesEnd(sess[t], LeftAfter(inFlight[sess[t]]))
          /\ takes => Goto(t, "mark")
          /\ pendingEnd' \in {pendingEnd, [pendingEnd EXCEPT ![sess[t]] = @ /\ ~takes]}
    BY <1>3 DEF DropGuard, records
  <2>2. CASE sess[t] # s
    BY <2>1, <2>2 DEF TypeOK
  <2>3. CASE sess[t] = s /\ ~takes
    BY <2>1, <2>3 DEF TypeOK
  <2>4. CASE sess[t] = s /\ takes
    BY <2>1, <2>4 DEF Goto, local, TypeOK, Ends
  <2> QED
    BY <2>2, <2>3, <2>4
<1> QED
  BY <1>1, <1>2, <1>3, CounterSteps

\* A leased transport that is closed does not gain a session; one that closes
\* lists what it owns.
LEMMA ClosingEnumerates ==
    ASSUME IInv, [Next]_vars, NEW s \in Sessions, NEW o \in Leased,
           owner'[s] = o, ~live'[o], ~(owner[s] = o /\ ~live[o])
    PROVE  \E t \in Threads : Ends(t, s, o)'
<1> USE DEF IInv
<1>0. o \in Owners /\ o # Nil
  BY OwnersAssumption
<1>1. ASSUME NEW t \in Threads, BeginDispatch(t) \/ Revive(t)
      PROVE  FALSE
  <2>1. live' = live /\ owner' = [owner EXCEPT ![sess[t]] = tran[t]]
    BY <1>1 DEF BeginDispatch, Revive
  <2>2. sess[t] = s /\ tran[t] = o
    <3>1. owner[s] # o
      BY <2>1
    <3>2. owner'[s] = IF s = sess[t] THEN tran[t] ELSE owner[s]
      BY <2>1 DEF TypeOK
    <3> QED
      BY <3>1, <3>2
  <2>3. ~Closed(o)
    BY <1>1, <2>2 DEF BeginDispatch, Revive, DispatchRefused, ReviveRefused
  <2> QED
    BY <2>1, <2>3 DEF Closed
<1>2. ASSUME NEW t \in Threads, MarkEnded(t)
      PROVE  FALSE
  <2>1. live' = live /\ owner' = [owner EXCEPT ![sess[t]] = Nil]
    BY <1>2 DEF MarkEnded
  <2> QED
    BY <1>0, <2>1 DEF TypeOK
<1>3. ASSUME NEW t \in Threads, NEW p \in Owners, CloseTransport(t, p)
      PROVE  Ends(t, s, o)'
  <2>1. owner' = owner /\ live'[o] # live[o]
    BY <1>3 DEF CloseTransport, records
  <2>2. p = o
    BY <1>0, <1>3, <2>1 DEF CloseTransport, TypeOK
  <2> QED
    BY <1>3, <2>2 DEF CloseTransport, Enter, TypeOK, Ends
<1> QED
  BY <1>1, <1>2, <1>3, AuthoritySteps

\* The part of the invariant that speaks of one session and one transport.
Swept(s, o) ==
    owner[s] = o /\ ~live[o] => pendingEnd[s] \/ \E t \in Threads : Ends(t, s, o)

\* Who has the end in hand keeps it, hands it over, or carries it out.
LEMMA SweptStep ==
    ASSUME IInv, [Next]_vars, \A t \in Threads : Listed(t),
           NEW s \in Sessions, NEW o \in Leased, Swept(s, o)
    PROVE  Swept(s, o)'
<1> SUFFICES ASSUME owner'[s] = o, ~live'[o]
             PROVE  pendingEnd'[s] \/ \E t \in Threads : Ends(t, s, o)'
  BY DEF Swept
<1>0. o \in Owners
  BY OwnersAssumption
<1>1. CASE ~(owner[s] = o /\ ~live[o])
  BY <1>1, ClosingEnumerates
<1>2. CASE owner[s] = o /\ ~live[o] /\ pendingEnd[s]
  BY <1>0, <1>2, DeferralIsKept
<1>3. ASSUME owner[s] = o, NEW t \in Threads, Ends(t, s, o)
      PROVE  pendingEnd'[s] \/ \E u \in Threads : Ends(u, s, o)'
  BY <1>0, <1>3, EndsIsKept
<1> QED
  BY <1>1, <1>2, <1>3 DEF Swept

\* When a connection goes away nothing it owned is forgotten: each of its
\* sessions waits for a thread that ends it, or for the guard that will. A call
\* admitted while TransportOwner::close runs is either listed or refused.
THEOREM ClosedConnectionIsSwept == Spec => []ClosedOwnerIsSwept
<1> DEFINE LInv == \A t \in Threads : Listed(t)
<1>1. Init => LInv /\ ClosedOwnerIsSwept
  BY OwnersAssumption DEF Init, Listed, ClosedOwnerIsSwept
<1>2. IInv /\ LInv /\ [Next]_vars => LInv'
  BY ListedStep
<1>3. ClosedOwnerIsSwept <=> \A s \in Sessions, o \in Leased : Swept(s, o)
  BY DEF ClosedOwnerIsSwept, Swept, Ends
<1>4. ClosedOwnerIsSwept' <=> \A s \in Sessions, o \in Leased : Swept(s, o)'
  BY DEF ClosedOwnerIsSwept, Swept, Ends
<1>5. IInv /\ LInv /\ ClosedOwnerIsSwept /\ [Next]_vars => ClosedOwnerIsSwept'
  BY <1>3, <1>4, SweptStep
<1> HIDE DEF LInv
<1> QED
  BY <1>1, <1>2, <1>5, Inductive, PTL DEF Spec


-----------------------------------------------------------------------------
(* The refinement.                                                         *)

\* A transport without a TransportOwner capability has no connection to lose.
UnleasedIsOpen == \A o \in Owners \ Leased : live[o]

\* Only TransportOwner::close closes, and only its own kind.
LEMMA UnleasedIsOpenStep == UnleasedIsOpen /\ [Next]_vars => UnleasedIsOpen'
<1> SUFFICES ASSUME UnleasedIsOpen, [Next]_vars, NEW o \in Owners \ Leased
             PROVE  live'[o]
  BY DEF UnleasedIsOpen
<1>1. live[o]
  BY DEF UnleasedIsOpen
<1>2. ASSUME NEW t \in Threads, BeginDispatch(t) \/ MarkEnded(t) \/ Revive(t)
      PROVE  live'[o]
  BY <1>1, <1>2 DEF BeginDispatch, MarkEnded, Revive
<1>3. ASSUME NEW t \in Threads, NEW p \in Owners, CloseTransport(t, p)
      PROVE  live'[o]
  BY <1>1, <1>3 DEF CloseTransport
<1> QED
  BY <1>1, <1>2, <1>3, AuthoritySteps

\* What a step does to a session, in the terms of the contract.
SameView(s) == StatusOf(s)' = StatusOf(s) /\ HolderOf(s)' = HolderOf(s)

\* If one session changes its view, and as the contract lets it, the step is one
\* of the contract.
LEMMA OneSessionChanges ==
    ASSUME NEW x \in Sessions, UNCHANGED live, \A s \in Sessions \ {x} : SameView(s),
           \/ SameView(x)
           \/ /\ StatusOf(x) = "live" /\ StatusOf(x)' = "ended" /\ HolderOf(x)' = HolderOf(x)
           \/ \E o \in Owners :
                /\ live[o] /\ StatusOf(x) = "unused"
                /\ StatusOf(x)' = "live" /\ HolderOf(x)' = o
           \/ \E o \in Owners :
                /\ live[o] /\ StatusOf(x) = "ended" /\ HolderOf(x) = o
                /\ StatusOf(x)' = "live" /\ HolderOf(x)' = o
    PROVE  [C!Next]_C!cvars
<1> DEFINE st == [s \in Sessions |-> StatusOf(s)]
           ho == [s \in Sessions |-> HolderOf(s)]
<1>1. CASE SameView(x)
  <2>1. st' = st /\ ho' = ho
    BY <1>1 DEF SameView
  <2> QED
    BY <2>1 DEF C!cvars
<1>2. CASE StatusOf(x) = "live" /\ StatusOf(x)' = "ended" /\ HolderOf(x)' = HolderOf(x)
  <2>1. st' = [st EXCEPT ![x] = "ended"] /\ ho' = ho
    BY <1>2 DEF SameView
  <2>2. C!End(x)
    BY <1>2, <2>1 DEF C!End
  <2> QED
    BY <2>2 DEF C!Next
<1>3. ASSUME NEW o \in Owners, live[o], StatusOf(x) = "unused",
             StatusOf(x)' = "live", HolderOf(x)' = o
      PROVE  [C!Next]_C!cvars
  <2>1. st' = [st EXCEPT ![x] = "live"] /\ ho' = [ho EXCEPT ![x] = o]
    BY <1>3 DEF SameView
  <2>2. C!Open(x, o)
    BY <1>3, <2>1 DEF C!Open
  <2> QED
    BY <2>2 DEF C!Next
<1>4. ASSUME NEW o \in Owners, live[o], StatusOf(x) = "ended", HolderOf(x) = o,
             StatusOf(x)' = "live", HolderOf(x)' = o
      PROVE  [C!Next]_C!cvars
  <2>1. st' = [st EXCEPT ![x] = "live"] /\ ho' = ho
    BY <1>4 DEF SameView
  <2>2. C!Resume(x, o)
    BY <1>4, <2>1 DEF C!Resume
  <2> QED
    BY <2>2 DEF C!Next
<1> QED
  BY <1>1, <1>2, <1>3, <1>4

\* Admission opens a session, or finds it open.
LEMMA DispatchRefines ==
    ASSUME IInv, UnleasedIsOpen, NEW t \in Threads, BeginDispatch(t)
    PROVE  [C!Next]_C!cvars
<1> USE DEF IInv, TypeOK
<1>0. sess[t] \in Sessions /\ tran[t] \in Owners
  BY DEF BeginDispatch, ControlOK, Sessionless
<1>1. PICK x \in Sessions, o \in Owners : x = sess[t] /\ o = tran[t] /\ o # Nil
  BY <1>0, OwnersAssumption
<1>2. owner' = [owner EXCEPT ![x] = o] /\ UNCHANGED <<tombstone, live>>
  BY <1>1 DEF BeginDispatch
<1>3. live[o] /\ tombstone[x] = Nil /\ owner[x] \in {Nil, o}
  BY <1>1 DEF BeginDispatch, DispatchRefused, Closed, UnleasedIsOpen
<1>4. \A s \in Sessions \ {x} : SameView(s)
  BY <1>2 DEF SameView, StatusOf, HolderOf
<1>5. StatusOf(x)' = "live" /\ HolderOf(x)' = o
  BY <1>1, <1>2 DEF StatusOf, HolderOf
<1>6. CASE owner[x] = Nil
  <2>1. StatusOf(x) = "unused"
    BY <1>3, <1>6 DEF StatusOf
  <2> QED
    BY <1>1, <1>2, <1>3, <1>4, <1>5, <2>1, OneSessionChanges
<1>7. CASE owner[x] = o
  <2>1. SameView(x)
    BY <1>1, <1>5, <1>7 DEF SameView, StatusOf, HolderOf
  <2> QED
    BY <1>1, <1>2, <1>4, <2>1, OneSessionChanges
<1> QED
  BY <1>3, <1>6, <1>7

\* A mark ends the episode, or finds it ended.
LEMMA MarkRefines ==
    ASSUME IInv, NEW t \in Threads, MarkEnded(t)
    PROVE  [C!Next]_C!cvars
<1> USE DEF IInv, TypeOK
<1>0. PICK x \in Sessions : x = sess[t]
  BY DEF MarkEnded, Sessionless
<1>1. UNCHANGED live /\ owner' = [owner EXCEPT ![x] = Nil]
  BY <1>0 DEF MarkEnded
<1>2. \A s \in Sessions \ {x} : owner'[s] = owner[s] /\ tombstone'[s] = tombstone[s]
  BY <1>0 DEF MarkEnded
<1>3. \A s \in Sessions \ {x} : SameView(s)
  BY <1>2 DEF SameView, StatusOf, HolderOf
<1>4. CASE tombstone[x] = Nil
  <2>1. owner[x] # Nil
    BY <1>0, <1>4 DEF MarkEnded, KnownOK, Known
  <2>2. tombstone'[x] = owner[x]
    BY <1>0, <1>4, <2>1 DEF MarkEnded, EpisodeOwner
  <2>3. StatusOf(x) = "live" /\ HolderOf(x) = owner[x]
    BY <2>1 DEF StatusOf, HolderOf
  <2>4. StatusOf(x)' = "ended" /\ HolderOf(x)' = owner[x]
    BY <1>1, <2>1, <2>2 DEF StatusOf, HolderOf
  <2> QED
    BY <1>1, <1>3, <2>3, <2>4, OneSessionChanges
<1>5. CASE tombstone[x] # Nil
  <2>1. owner[x] = Nil /\ owner'[x] = Nil
    BY <1>1, <1>5 DEF LiveExcludesEnded
  <2>2. tombstone' = tombstone
    BY <1>0, <1>5 DEF MarkEnded
  <2>3. SameView(x)
    BY <2>1, <2>2 DEF SameView, StatusOf, HolderOf
  <2> QED
    BY <1>1, <1>3, <2>3, OneSessionChanges
<1> QED
  BY <1>4, <1>5

\* A revival resumes what its own transport has ended, opens what nobody has had,
\* or finds the session open.
LEMMA ReviveRefines ==
    ASSUME IInv, TombstoneKeepsOwner, UnleasedIsOpen, NEW t \in Threads, Revive(t)
    PROVE  [C!Next]_C!cvars
<1> USE DEF IInv, TypeOK
<1>0. sess[t] \in Sessions /\ tran[t] \in Owners
  BY DEF Revive, ControlOK, Sessionless
<1>1. PICK x \in Sessions, o \in Owners : x = sess[t] /\ o = tran[t] /\ o # Nil
  BY <1>0, OwnersAssumption
<1>2. /\ owner' = [owner EXCEPT ![x] = o]
      /\ tombstone' = [tombstone EXCEPT ![x] = Nil]
      /\ UNCHANGED live
  BY <1>1 DEF Revive
<1>3. live[o] /\ tombstone[x] \in {Nil, o} /\ owner[x] \in {Nil, o}
  BY <1>1 DEF Revive, ReviveRefused, Closed, Foreign, UnleasedIsOpen, TombstoneKeepsOwner
<1>4. \A s \in Sessions \ {x} : SameView(s)
  BY <1>2 DEF SameView, StatusOf, HolderOf
<1>5. StatusOf(x)' = "live" /\ HolderOf(x)' = o
  BY <1>1, <1>2 DEF StatusOf, HolderOf
<1>6. CASE owner[x] = Nil /\ tombstone[x] = Nil
  <2>1. StatusOf(x) = "unused"
    BY <1>6 DEF StatusOf
  <2> QED
    BY <1>1, <1>2, <1>3, <1>4, <1>5, <2>1, OneSessionChanges
<1>7. CASE owner[x] = Nil /\ tombstone[x] = o
  <2>1. StatusOf(x) = "ended" /\ HolderOf(x) = o
    BY <1>1, <1>7 DEF StatusOf, HolderOf
  <2> QED
    BY <1>1, <1>2, <1>3, <1>4, <1>5, <2>1, OneSessionChanges
<1>8. CASE owner[x] = o
  <2>1. SameView(x)
    BY <1>1, <1>5, <1>8 DEF SameView, StatusOf, HolderOf
  <2> QED
    BY <1>1, <1>2, <1>4, <2>1, OneSessionChanges
<1> QED
  BY <1>3, <1>6, <1>7, <1>8

\* A connection that closes.
LEMMA CloseRefines ==
    ASSUME TypeOK, UnleasedIsOpen, NEW t \in Threads, NEW o \in Owners,
           CloseTransport(t, o)
    PROVE  [C!Next]_C!cvars
<1>1. UNCHANGED <<tombstone, owner>>
  BY DEF CloseTransport, records
<1>2. UNCHANGED <<[s \in Sessions |-> StatusOf(s)], [s \in Sessions |-> HolderOf(s)]>>
  BY <1>1 DEF StatusOf, HolderOf
<1>3. CASE o \in Leased
  <2>1. live[o] /\ live' = [live EXCEPT ![o] = FALSE]
    BY <1>3 DEF CloseTransport, Closed
  <2>2. C!Close(o)
    BY <1>2, <1>3, <2>1 DEF C!Close
  <2> QED
    BY <2>2 DEF C!Next
<1>4. CASE o \notin Leased
  <2>1. UNCHANGED live
    BY <1>4 DEF CloseTransport
  <2> QED
    BY <1>2, <2>1 DEF C!cvars
<1> QED
  BY <1>3, <1>4

\* Whatever the locks, guards, lists and hooks of the lifecycle do, the rest of
\* the program sees the few steps of SessionContract.
THEOREM LifecycleImplementsContract == Spec => ImplementsContract
<1>1. Init => C!Init
  <2> SUFFICES ASSUME Init PROVE C!Init
    OBVIOUS
  <2>1. \A s \in Sessions : StatusOf(s) = "unused" /\ HolderOf(s) = Nil
    BY DEF Init, StatusOf, HolderOf
  <2> QED
    BY <2>1 DEF Init, C!Init
<1>2. Init => UnleasedIsOpen
  BY DEF Init, UnleasedIsOpen
<1>3. Spec => []UnleasedIsOpen
  BY <1>2, UnleasedIsOpenStep, PTL DEF Spec
<1>4. IInv /\ TombstoneKeepsOwner /\ UnleasedIsOpen /\ [Next]_vars => [C!Next]_C!cvars
  <2> SUFFICES ASSUME IInv, TombstoneKeepsOwner, UnleasedIsOpen, [Next]_vars
               PROVE  [C!Next]_C!cvars
    OBVIOUS
  <2>1. CASE UNCHANGED <<tombstone, owner, live>>
    BY <2>1 DEF StatusOf, HolderOf, C!cvars
  <2>2. ASSUME NEW t \in Threads, BeginDispatch(t) PROVE [C!Next]_C!cvars
    BY <2>2, DispatchRefines
  <2>3. ASSUME NEW t \in Threads, MarkEnded(t) PROVE [C!Next]_C!cvars
    BY <2>3, MarkRefines
  <2>4. ASSUME NEW t \in Threads, Revive(t) PROVE [C!Next]_C!cvars
    BY <2>4, ReviveRefines
  <2>5. ASSUME NEW t \in Threads, NEW o \in Owners, CloseTransport(t, o)
        PROVE  [C!Next]_C!cvars
    BY <2>5, CloseRefines DEF IInv
  <2> QED
    BY <2>1, <2>2, <2>3, <2>4, <2>5, AuthoritySteps
<1> QED
  BY <1>1, <1>3, <1>4, Inductive, TombstonesHaveOwners, PTL
     DEF Spec, ImplementsContract, C!Spec
=============================================================================
