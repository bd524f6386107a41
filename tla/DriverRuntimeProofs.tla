------------------------- MODULE DriverRuntimeProofs -------------------------
(***************************************************************************)
(* Theorems about DriverRuntime, for any operations, handles, shutdowns    *)
(* and labels: an operation calls back at most once, and a shutdown that   *)
(* has returned has left nothing behind.                                   *)
(***************************************************************************)
EXTENDS DriverRuntime, TLAPS

\* A callback is called when its operation is cancelled, or else when it is over.
ToldOnce == \A o \in Ops : told[o] = 1 => o \in cancelled \/ op[o] = "gone"

Inv == TypeOK /\ ToldOnce

\* The registry revokes contexts and makes none.
LEMMA RevokedType ==
    ASSUME TypeOK, NEW hs
    PROVE  Revoked(hs) \in [Handles -> {"none", "live", "expired", "revoked"}]
BY DEF TypeOK, Revoked

\* The end of a task frees its read guard, and its reference to a session.
LEMMA ReleaseType ==
    ASSUME Inv, NEW o \in Ops, Release(o), Task(o)
    PROVE  /\ op' \in [Ops -> {"new", "spawned", "waiting", "inside", "running",
                               "leaving", "gone"}]
           /\ readers' = {i \in Ops : op'[i] \in {"inside", "running"}}
           /\ context' \in [Handles -> {"none", "live", "expired", "revoked"}]
           /\ registered' \subseteq Handles
           /\ UNCHANGED <<halted, writer, stop, on, worker, handle, label, live, recording>>
<1> USE DEF Inv, TypeOK
<1>1. op' = [op EXCEPT ![o] = "gone"] /\ readers' = readers \ {o}
  BY DEF Release, Freed
<1>2. readers' = {i \in Ops : op'[i] \in {"inside", "running"}}
  BY <1>1
<1>3. /\ context' \in [Handles -> {"none", "live", "expired", "revoked"}]
      /\ registered' \subseteq Handles
  <2>1. CASE on[o] # Nil /\ ~KeptWithout(o, on[o])
    BY <2>1, RevokedType DEF Release, Revoke
  <2>2. CASE ~(on[o] # Nil /\ ~KeptWithout(o, on[o]))
    BY <2>2 DEF Release
  <2> QED
    BY <2>1, <2>2
<1> QED
  BY <1>1, <1>2, <1>3 DEF Release

\* Every action leaves the runtime typed and no callback called twice.
LEMMA InvStep == Inv /\ [Next]_vars => Inv'
<1> SUFFICES ASSUME Inv, [Next]_vars
             PROVE  Inv'
  OBVIOUS
<1> USE RuntimeAssumption DEF Inv, TypeOK, ToldOnce, gate, task, authority, Task
<1>1. ASSUME NEW o \in Ops, NEW h \in Handles \cup {Nil}, Invoke(o, h) PROVE Inv'
  BY <1>1 DEF Invoke
<1>2. ASSUME NEW o \in Ops, Enter(o) PROVE Inv'
  BY <1>2 DEF Enter, Goto
<1>3. ASSUME NEW o \in Ops, Admit(o) PROVE Inv'
  <2>1. CASE Admitted(o)
    <3>1. op' = [op EXCEPT ![o] = "inside"] /\ readers' = readers \cup {o}
      BY <1>3, <2>1 DEF Admit, Goto
    <3>2. readers' = {i \in Ops : op'[i] \in {"inside", "running"}}
      BY <3>1
    <3> QED
      BY <1>3, <3>1, <3>2 DEF Admit
  <2>2. CASE ~Admitted(o)
    <3>1. op' = [op EXCEPT ![o] = "leaving"] /\ readers' = readers
      BY <1>3, <2>2 DEF Admit, Goto
    <3>2. readers' = {i \in Ops : op'[i] \in {"inside", "running"}}
      BY <1>3, <3>1 DEF Admit
    <3> QED
      BY <1>3, <3>1, <3>2 DEF Admit
  <2> QED
    BY <2>1, <2>2
<1>4. ASSUME NEW o \in Ops, Commit(o) PROVE Inv'
  <2>1. op' = [op EXCEPT ![o] = "running"] /\ readers' = readers
    BY <1>4 DEF Commit, Goto
  <2>2. readers' = {i \in Ops : op'[i] \in {"inside", "running"}}
    BY <1>4, <2>1 DEF Commit
  <2>3. live' \subseteq Labels /\ recording' \in BOOLEAN /\ worker' \subseteq Ops
    BY <1>4 DEF Commit
  <2> QED
    BY <1>4, <2>1, <2>2, <2>3 DEF Commit
<1>5. ASSUME NEW o \in Ops, Refuse(o) PROVE Inv'
  BY <1>5 DEF Refuse, Goto, Freed
<1>6. ASSUME NEW o \in Ops, WorkEnds(o) PROVE Inv'
  BY <1>6 DEF WorkEnds
<1>7. ASSUME NEW o \in Ops, Leave(o) PROVE Inv'
  <2>1. /\ context' \in [Handles -> {"none", "live", "expired", "revoked"}]
        /\ registered' \subseteq Handles /\ live' \subseteq Labels
    BY <1>7, RevokedType DEF Leave, Revoke
  <2>2. op' = [op EXCEPT ![o] = "leaving"] /\ readers' = readers \ {o}
    BY <1>7 DEF Leave, Goto, Freed
  <2> QED
    BY <1>7, <2>1, <2>2 DEF Leave
<1>8. ASSUME NEW o \in Ops, Complete(o) PROVE Inv'
  <2>1. told' \in [Ops -> 0..1]
    BY <1>8 DEF Complete, Unheard
  <2>2. op' = [op EXCEPT ![o] = "gone"] /\ cancelled' = cancelled
    BY <1>8 DEF Complete, Release
  <2>3. ToldOnce'
    BY <1>8, <2>2 DEF Complete
  <2> QED
    BY <1>8, <2>1, <2>2, <2>3, ReleaseType DEF Complete
<1>9. ASSUME NEW o \in Ops, Cancel(o) PROVE Inv'
  BY <1>9 DEF Cancel
<1>10. ASSUME NEW o \in Ops, Dropped(o) PROVE Inv'
  <2>1. op' = [op EXCEPT ![o] = "gone"]
    BY <1>10 DEF Dropped, Release
  <2> QED
    BY <1>10, <2>1, ReleaseType DEF Dropped
<1>11. ASSUME NEW h \in Handles, NEW l \in Labels, CreateCheck(h, l) PROVE Inv'
  BY <1>11 DEF CreateCheck
<1>12. ASSUME NEW h \in Handles, Bind(h) PROVE Inv'
  BY <1>12, RevokedType DEF Bind
<1>13. ASSUME NEW h \in Handles, Resolve(h) PROVE Inv'
  BY <1>13 DEF Resolve
<1>14. ASSUME NEW h \in Handles, Expire(h) PROVE Inv'
  BY <1>14 DEF Expire
<1>15. ASSUME NEW h \in Handles, Close(h) PROVE Inv'
  BY <1>15, RevokedType DEF Close, Revoke
<1>16. ASSUME NEW x \in Stops, StopCall(x) PROVE Inv'
  BY <1>16 DEF StopCall, StopAt
<1>17. ASSUME NEW x \in Stops, StopQueue(x) PROVE Inv'
  BY <1>17 DEF StopQueue, StopAt
<1>18. ASSUME NEW x \in Stops, StopLock(x) PROVE Inv'
  BY <1>18 DEF StopLock, StopAt, Drained
<1>19. ASSUME NEW x \in Stops, StopRevoke(x) PROVE Inv'
  BY <1>19, RevokedType DEF StopRevoke, StopAt, Revoke
<1>20. ASSUME NEW x \in Stops, StopEnd(x) PROVE Inv'
  BY <1>20 DEF StopEnd, StopAt
<1>21. ASSUME NEW x \in Stops, StopReturn(x) PROVE Inv'
  BY <1>21 DEF StopReturn, StopAt
<1>22. ASSUME NEW x \in Stops, StopCancelled(x) PROVE Inv'
  BY <1>22 DEF StopCancelled, StopAt
<1>23. ASSUME NEW l \in Labels, EvictIdle(l) PROVE Inv'
  BY <1>23 DEF EvictIdle
<1>24. ASSUME UNCHANGED vars PROVE Inv'
  BY <1>24 DEF vars
<1> HIDE DEF Inv, TypeOK, ToldOnce, gate, task, authority, Task
<1>25. ASSUME NEW o \in Ops, OpStep(o) PROVE Inv'
  BY <1>2, <1>3, <1>4, <1>5, <1>7, <1>8, <1>10, <1>25 DEF OpStep
<1>26. ASSUME NEW x \in Stops, StopStep(x) PROVE Inv'
  BY <1>17, <1>18, <1>19, <1>20, <1>21, <1>26 DEF StopStep
<1>27. ASSUME NEW h \in Handles, CreateStep(h) PROVE Inv'
  BY <1>12, <1>13, <1>27 DEF CreateStep
<1> QED
  BY <1>1, <1>6, <1>9, <1>11, <1>14, <1>15, <1>16, <1>22, <1>23, <1>24, <1>25,
     <1>26, <1>27 DEF Next

\* The runtime starts idle, and no callback has been called.
LEMMA InvInit == Init => Inv
<1> SUFFICES ASSUME Init
             PROVE  Inv
  OBVIOUS
<1>1. readers = {o \in Ops : op[o] \in {"inside", "running"}}
  BY DEF Init
<1>2. \A x \in Stops : stop[x] \in {"locked", "revoked", "ended"} <=> writer = x
  BY RuntimeAssumption DEF Init
<1>3. ToldOnce
  BY DEF Init, ToldOnce
<1>4. /\ op \in [Ops -> {"new", "spawned", "waiting", "inside", "running", "leaving", "gone"}]
      /\ on \in [Ops -> Handles \cup {Nil}] /\ told \in [Ops -> 0..1]
  BY DEF Init
<1>5. /\ stop \in [Stops -> {"new", "called", "queued", "locked", "revoked", "ended", "done", "gone"}]
      /\ handle \in [Handles -> {"none", "checked", "bound", "open", "closed"}]
      /\ label \in [Handles -> Labels \cup {Nil}]
      /\ context \in [Handles -> {"none", "live", "expired", "revoked"}]
  BY DEF Init
<1>6. /\ halted \in BOOLEAN /\ recording \in BOOLEAN /\ writer \in Stops \cup {Nil}
      /\ readers \subseteq Ops /\ cancelled \subseteq Ops /\ worker \subseteq Ops
      /\ registered \subseteq Handles /\ live \subseteq Labels
  BY DEF Init
<1> QED
  BY <1>1, <1>2, <1>3, <1>4, <1>5, <1>6 DEF Inv, TypeOK

\* Every state is well-typed. In particular a completion callback is never called
\* a second time, whatever cancellation it races with.
THEOREM RuntimeTypeCorrect == Spec => []TypeOK
<1>1. Spec => []Inv
  BY InvInit, InvStep, PTL DEF Spec
<1> QED
  BY <1>1, PTL DEF Inv

-----------------------------------------------------------------------------
(* Shutdown.                                                               *)

\* From the moment a shutdown has the lock nobody is inside, and nobody gets in
\* again, because the flag was set before the lock was asked for.
Closing == {"locked", "revoked", "ended", "done"}
Sealed == halted /\ readers = {}

SealOK ==
    /\ (\E x \in Stops : stop[x] # "new") => halted
    /\ (\E x \in Stops : stop[x] \in Closing) => Sealed
    /\ (\E x \in Stops : stop[x] \in {"ended", "done"}) => live = {}
    /\ Down => ~recording

\* A sealed runtime stays sealed: an operation that waited for the lock looks at
\* the flag again when it gets it.
LEMMA SealedStays ==
    ASSUME Inv, [Next]_vars, Sealed
    PROVE  /\ Sealed'
           /\ live' \subseteq live
           /\ recording' => recording
<1> DEFINE Goal == Sealed' /\ live' \subseteq live /\ (recording' => recording)
<1> USE DEF gate, task, authority
<1>1. halted /\ readers = {} /\ \A o \in Ops : op[o] \notin {"inside", "running"}
  BY DEF Inv, TypeOK, Sealed
<1>2. ASSUME halted', readers' \subseteq readers, live' \subseteq live,
             recording' => recording
      PROVE  Goal
  BY <1>1, <1>2 DEF Sealed
<1> HIDE DEF Goal
<1>3. ASSUME NEW o \in Ops, OpStep(o) PROVE Goal
  <2>1. CASE Enter(o)
    BY <1>1, <1>2, <2>1 DEF Enter
  <2>2. CASE Admit(o)
    BY <1>1, <1>2, <2>2 DEF Admit, Admitted
  <2>3. CASE Commit(o) \/ Refuse(o) \/ Leave(o)
    BY <1>1, <2>3 DEF Commit, Refuse, Leave
  <2>4. CASE Complete(o) \/ Dropped(o)
    <3>1. Release(o)
      BY <2>4 DEF Complete, Dropped
    <3> QED
      BY <1>1, <1>2, <3>1 DEF Release, Freed
  <2> QED
    BY <1>3, <2>1, <2>2, <2>3, <2>4 DEF OpStep
<1>4. ASSUME NEW o \in Ops, NEW h, Invoke(o, h) PROVE Goal
  BY <1>1, <1>2, <1>4 DEF Invoke
<1>5. ASSUME NEW o \in Ops, WorkEnds(o) \/ Cancel(o) PROVE Goal
  BY <1>1, <1>2, <1>5 DEF WorkEnds, Cancel
<1>6. ASSUME NEW h \in Handles, CreateStep(h) \/ Expire(h) \/ Close(h) PROVE Goal
  BY <1>1, <1>2, <1>6 DEF CreateStep, Bind, Resolve, Expire, Close
<1>7. ASSUME NEW h \in Handles, NEW l \in Labels, CreateCheck(h, l) PROVE Goal
  BY <1>1, <1>2, <1>7 DEF CreateCheck
<1>8. ASSUME NEW x \in Stops, StopCall(x) \/ StopStep(x) \/ StopCancelled(x) PROVE Goal
  <2>1. CASE StopCall(x) \/ StopQueue(x) \/ StopLock(x) \/ StopRevoke(x) \/ StopCancelled(x)
    BY <1>1, <1>2, <2>1 DEF StopCall, StopQueue, StopLock, StopRevoke, StopCancelled
  <2>2. CASE StopEnd(x) \/ StopReturn(x)
    BY <1>1, <1>2, <2>2 DEF StopEnd, StopReturn
  <2> QED
    BY <1>8, <2>1, <2>2 DEF StopStep
<1>9. ASSUME NEW l \in Labels, EvictIdle(l) PROVE Goal
  BY <1>1, <1>2, <1>9 DEF EvictIdle
<1>10. ASSUME UNCHANGED vars PROVE Goal
  BY <1>1, <1>2, <1>10 DEF vars
<1> HIDE DEF gate, task, authority
<1>11. Goal
  BY <1>3, <1>4, <1>5, <1>6, <1>7, <1>8, <1>9, <1>10 DEF Next
<1> QED
  BY <1>11 DEF Goal

\* Only a shutdown moves a shutdown.
LEMMA StopMoves ==
    ASSUME Inv, [Next]_vars
    PROVE  \/ UNCHANGED <<stop, halted>>
           \/ \E x \in Stops : StopCall(x) \/ StopStep(x) \/ StopCancelled(x)
<1> DEFINE Same == UNCHANGED <<stop, halted>>
<1> USE DEF gate
<1>1. ASSUME NEW o \in Ops, OpStep(o) \/ WorkEnds(o) \/ Cancel(o) PROVE Same
  BY <1>1 DEF OpStep, Enter, Admit, Commit, Refuse, Leave, Complete, Dropped,
              Release, WorkEnds, Cancel
<1>2. ASSUME NEW o \in Ops, NEW h, Invoke(o, h) PROVE Same
  BY <1>2 DEF Invoke
<1>3. ASSUME NEW h \in Handles, CreateStep(h) \/ Expire(h) \/ Close(h) PROVE Same
  BY <1>3 DEF CreateStep, Bind, Resolve, Expire, Close
<1>4. ASSUME NEW h \in Handles, NEW l \in Labels, CreateCheck(h, l) PROVE Same
  BY <1>4 DEF CreateCheck
<1>5. ASSUME NEW l \in Labels, EvictIdle(l) PROVE Same
  BY <1>5 DEF EvictIdle
<1>6. ASSUME UNCHANGED vars PROVE Same
  BY <1>6 DEF vars
<1> HIDE DEF Same, gate
<1>7. Same \/ \E x \in Stops : StopCall(x) \/ StopStep(x) \/ StopCancelled(x)
  BY <1>1, <1>2, <1>3, <1>4, <1>5, <1>6 DEF Next
<1> QED
  BY <1>7 DEF Same

\* Once a shutdown has returned, every step keeps the runtime sealed and empty.
LEMMA SealStep == Inv /\ SealOK /\ [Next]_vars => SealOK'
<1> SUFFICES ASSUME Inv, SealOK, [Next]_vars
             PROVE  SealOK'
  OBVIOUS
<1>1. CASE UNCHANGED <<stop, halted>>
  BY <1>1, SealedStays DEF SealOK, Sealed, Closing, Down
<1>2. ASSUME NEW x \in Stops, StopCall(x) PROVE SealOK'
  BY <1>2, SealedStays DEF StopCall, StopAt, SealOK, Sealed, Closing, Down, Inv, TypeOK
<1>3. ASSUME NEW x \in Stops, StopQueue(x) PROVE SealOK'
  BY <1>3, SealedStays DEF StopQueue, StopAt, SealOK, Sealed, Closing, Down, Inv, TypeOK
<1>4. ASSUME NEW x \in Stops, StopLock(x) PROVE SealOK'
  BY <1>4 DEF StopLock, Drained, StopAt, SealOK, Sealed, Closing, Down, Inv, TypeOK
<1>5. ASSUME NEW x \in Stops, StopRevoke(x) PROVE SealOK'
  BY <1>5 DEF StopRevoke, StopAt, SealOK, Sealed, Closing, Down, Inv, TypeOK
<1>6. ASSUME NEW x \in Stops, StopEnd(x) PROVE SealOK'
  BY <1>6 DEF StopEnd, StopAt, SealOK, Sealed, Closing, Down, Inv, TypeOK
<1>7. ASSUME NEW x \in Stops, StopReturn(x) PROVE SealOK'
  BY <1>7 DEF StopReturn, StopAt, SealOK, Sealed, Closing, Down, Inv, TypeOK
<1>8. ASSUME NEW x \in Stops, StopCancelled(x) PROVE SealOK'
  BY <1>8 DEF StopCancelled, StopAt, SealOK, Sealed, Closing, Down, Inv, TypeOK
<1> QED
  BY <1>1, <1>2, <1>3, <1>4, <1>5, <1>6, <1>7, <1>8, StopMoves DEF StopStep

\* A shutdown that has returned has left no operation inside the runtime, no
\* session and no recording: what waited for the lock behind it is refused, and a
\* second shutdown changes nothing.
THEOREM ShutdownIsComplete == Spec => []ShutdownLeavesNothing
<1>1. Init => SealOK
  BY DEF Init, SealOK, Closing, Down
<1>2. SealOK => ShutdownLeavesNothing
  BY DEF SealOK, Sealed, Closing, Down, ShutdownLeavesNothing
<1> QED
  BY <1>1, <1>2, SealStep, InvInit, InvStep, PTL DEF Spec

=============================================================================
